---- MODULE Spec2Model ----
(***************************************************************************)
(* Verification model of the consort repository: the slot-based uploaders, *)
(* the upload API route with its in-memory rate limiter, the request       *)
(* middleware, the login lockout of the auth page, the session heartbeat   *)
(* and the Firebase Admin SDK lockdown.  Each subsystem has its own        *)
(* specification over its own variables; the variables of the other        *)
(* subsystems stay at their initial values.                                *)
(***************************************************************************)
EXTENDS Integers, Sequences, FiniteSets, TLC

VARIABLES
    \* ---- slot uploads (slotBasedUpload + firebaseAuth.uploadDoc)
    storageObjects,   \* Firebase Storage: set of [path, content]
    clock,            \* Date.now() of the browser, ms
    currentUser,      \* auth.currentUser is set
    uploadCalls,      \* number of uploader calls made (bounded)
    lastWrite,        \* slot -> content written by the latest upload to it
    \* ---- upload rate limiter (api/admin/upload/route.ts)
    uploadRateLimitStore,  \* Map key -> [count, resetTime, violations]
    rlNow,                 \* Date.now() of the server, ms
    rlRecent,              \* key -> (time -> successful calls at that time), last minute
    rlLast,                \* key and result of the latest checkUploadRateLimit call
    \* ---- POST /api/admin/upload
    adminUploads,          \* objects written by handleFileUpload
    lastReq,               \* the latest request
    lastResp,              \* the response to it
    storeBefore,           \* uploadRateLimitStore when the latest request arrived
    uploadsBefore,         \* adminUploads when the latest request arrived
    \* ---- request middleware (middleware.ts)
    mwEnv,                 \* process.env: NODE_ENV and NEXT_PUBLIC_FIREBASE_PROJECT_ID
    mwNow,                 \* Math.floor(Date.now() / 1000)
    mwReq,                 \* the request at hand
    mwResp,                \* the response of the middleware to it
    \* ---- auth page (app/auth/page.tsx), one browser tab
    authNow,               \* Date.now() of the browser, ms
    email,                 \* state: the email typed
    step,                  \* state: 1 = email, 2 = password
    password,              \* state: the password typed
    passwordError,         \* state: a password error is shown
    isBlocked,             \* state
    isSubmitting,          \* state
    loading,               \* useFirebaseAuth: loading
    authUser,              \* useFirebaseAuth: a user is signed in
    loginAttempts,         \* localStorage login_attempts_<email>: timestamps
    loginBlock,            \* localStorage login_block_<email>: blockedUntil, 0 = no item
    intervals,             \* running countdown intervals: [key, blockedUntil]
    step2Calls,            \* handleStep2 calls in flight: slot -> [pc, email]
    loginCalls,            \* number of login calls made (bounded)
    authLast,              \* what the latest step did
    \* ---- session heartbeat (hooks/useSessionHeartbeat.ts), one browser tab
    hbNow,                 \* Date.now() of the browser, ms
    hbUser,                \* useAuth: a user is signed in
    hbLoading,             \* useAuth: loading
    lastActivityRef,       \* lastActivityRef.current
    heartbeatIntervalRef,  \* time of the next firing of the interval, 0 = no interval
    documentHidden,        \* document.hidden
    sessionClosed,         \* localStorage session_closed: timestamp, -1 = no item
    hbLogout,              \* "pending" while a forceLogout call is under way
    activitySinceStart,    \* lastActivityRef was written since the heartbeat started
    hbLast,                \* what the latest step did
    \* ---- Firebase Admin SDK module (firebase-admin.ts), one server process
    adminApp,              \* None or "app"
    initializationError,   \* None or "error"
    initialized,
    securityLockdown,
    adminEnv,              \* process.env
    lockdownSeen,          \* securityLockdown has been set at some time
    adminLast,             \* the latest call and its outcome
    \* ---- forceLogout (authUtils), one call in one browser tab or on the server
    flConfig,              \* includeServerInvalidation, and whether window is defined
    flPc,                  \* where the call stands: the await it is at
    flLog,                 \* the steps taken so far, in order
    flOutcome,             \* how each awaited call settled
    flLocalStorage,        \* keys of localStorage
    flSessionStorage,      \* keys of sessionStorage
    flCookies,             \* cookies of the site: [name, httpOnly, path]
    flLocation,            \* window.location.href
    flBefore,              \* the storages and cookies when forceLogout was called
    flResult,              \* "pending", "resolved" or "rejected"
    \* ---- sendOTP (firebaseAuth), one browser window
    otpNow,                \* Date.now() of the browser, ms
    lastOtpSent,           \* window.lastOtpSent, 0 = undefined
    recaptchaVerifier,     \* window.recaptchaVerifier is set
    otpCalls,              \* sendOTP calls awaiting signInWithPhoneNumber: slot -> [pc, invokedAt]
    otpInvocations,        \* times at which signInWithPhoneNumber was invoked
    otpSends,              \* invocation times of the calls that resolved: an OTP was sent
    otpLast,               \* the latest sendOTP return at its first step
    utArgs,                 \* the arguments of the uploadToSlots call
    utPc,                   \* where the callback of each file stands
    uploadedSlots,          \* SlotUploadResult.uploadedSlots
    errors,                 \* SlotUploadResult.errors
    utUploads,              \* indexes whose uploadSingleFileWithTimeout was started
    utResult                \* the promise returned by uploadToSlots

slotVars == <<storageObjects, clock, currentUser, uploadCalls, lastWrite>>
rateVars == <<uploadRateLimitStore, rlNow, rlRecent, rlLast>>
postVars == <<adminUploads, lastReq, lastResp, storeBefore, uploadsBefore>>

mwVars == <<mwEnv, mwNow, mwReq, mwResp>>

authVars ==
    <<authNow, email, step, password, passwordError, isBlocked, isSubmitting, loading,
      authUser, loginAttempts, loginBlock, intervals, step2Calls, loginCalls, authLast>>

hbVars ==
    <<hbNow, hbUser, hbLoading, lastActivityRef, heartbeatIntervalRef, documentHidden,
      sessionClosed, hbLogout, activitySinceStart, hbLast>>

adminVars ==
    <<adminApp, initializationError, initialized, securityLockdown, adminEnv, lockdownSeen,
      adminLast>>

flVars ==
    <<flConfig, flPc, flLog, flOutcome, flLocalStorage, flSessionStorage, flCookies,
      flLocation, flBefore, flResult>>

otpVars ==
    <<otpNow, lastOtpSent, recaptchaVerifier, otpCalls, otpInvocations, otpSends, otpLast>>

utVars ==
    <<utArgs, utPc, uploadedSlots, errors, utUploads, utResult>>

vars == <<slotVars, rateVars, postVars, mwVars, authVars, hbVars, adminVars, flVars, otpVars, utVars>>

\* the variables outside each subsystem
outsideSlots == <<rateVars, postVars, mwVars, authVars, hbVars, adminVars, flVars, otpVars, utVars>>
outsideRate == <<slotVars, postVars, mwVars, authVars, hbVars, adminVars, flVars, otpVars, utVars>>
outsideUpload == <<slotVars, rlRecent, rlLast, mwVars, authVars, hbVars, adminVars, flVars, otpVars, utVars>>
outsideMiddleware == <<slotVars, rateVars, postVars, authVars, hbVars, adminVars, flVars, otpVars, utVars>>
outsideAuth == <<slotVars, rateVars, postVars, mwVars, hbVars, adminVars, flVars, otpVars, utVars>>
outsideHeartbeat == <<slotVars, rateVars, postVars, mwVars, authVars, adminVars, flVars, otpVars, utVars>>
outsideAdmin == <<slotVars, rateVars, postVars, mwVars, authVars, hbVars, flVars, otpVars, utVars>>
outsideLogout == <<slotVars, rateVars, postVars, mwVars, authVars, hbVars, adminVars, otpVars, utVars>>
outsideOtp == <<slotVars, rateVars, postVars, mwVars, authVars, hbVars, adminVars, flVars, utVars>>
outsideSlotUpload == <<slotVars, rateVars, postVars, mwVars, authVars, hbVars, adminVars, flVars, otpVars>>

Max(a, b) == IF a >= b THEN a ELSE b
Min(a, b) == IF a <= b THEN a ELSE b
Range(s) == {s[i] : i \in 1..Len(s)}
None == "none"
\* no checkUploadRateLimit result at hand
NoResult == [key |-> None, success |-> FALSE, remaining |-> 0, reset |-> 0]

\* a File of a form: size in bytes and what FileUploadSecurity.validateFile
\* does with it ("valid", "invalid", or "throws")
NoFile == [size |-> -1, check |-> None]
NoForm == [parsed |-> FALSE, file |-> NoFile, path |-> None, storageOk |-> FALSE]
NoRequest == [token |-> None, contentLength |-> None, form |-> NoForm]
NoResponse == [status |-> 0, retryAfter |-> -1, handlerRan |-> FALSE, wrote |-> FALSE]

\* no response of the middleware yet
NoMwResponse == [kind |-> None, status |-> 0, location |-> None, headers |-> << >>]

Path_root == <<"/">>

\* A decoded token.  parts: number of dot-separated parts; headerOk and
\* payloadOk: the part decodes (base64 and JSON); iss: "proj" or "other" stand
\* for https://securetoken.google.com/<project>, "foreign" for another issuer;
\* None marks a missing field; firebase: the type of the firebase claim.
ValidJwt ==
    [parts |-> 3, headerOk |-> TRUE, alg |-> "RS256", kid |-> "key-id-0123456789",
     payloadOk |-> TRUE, iss |-> "proj", aud |-> "proj", sub |-> "user-0123456789",
     exp |-> 7200, iat |-> 3600, firebase |-> "object", authTime |-> 0]

NoMwRequest ==
    [pathname |-> Path_root, method |-> "GET", origin |-> None, userAgent |-> "",
     cookie |-> [kind |-> "absent", jwt |-> ValidJwt]]

(***************************************************************************)
(* Slot uploads                                                            *)
(***************************************************************************)
MaxClock == 1          \* clock values 0..MaxClock
MaxUploadCalls == 2    \* uploader calls per behaviour
MaxFiles == 2          \* files per uploader call

\* Entity ids offered to the uploaders; "p/1" has a character that
\* sanitizePathComponent rejects.
EntityIds == {"p1", "p/1"}
ValidIdChars == {"p1"}

\* A File: its name (base and extension, separately), whether the name marks
\* a 320px thumbnail, whether FileUploadSecurity.validateFile accepts it, and
\* its content.
Files ==
    { [base |-> "a", ext |-> "webp", thumb |-> FALSE, valid |-> TRUE, content |-> "x"],
      [base |-> "b", ext |-> "webp", thumb |-> FALSE, valid |-> TRUE, content |-> "y"],
      [base |-> "a", ext |-> "webp", thumb |-> FALSE, valid |-> FALSE, content |-> "z"],
      [base |-> "a-320", ext |-> "webp", thumb |-> TRUE, valid |-> TRUE, content |-> "x"] }

FileSeqs == UNION { [1..n -> Files] : n \in 1..MaxFiles }

\* sanitizePathComponent: returns the input or throws
sanitizePathComponentOk(input) == input \in ValidIdChars

\* uploadDoc: the object path it writes for a slot path and a file at time t.
\* The slot path is kept as the record slot; the unique file name appended to
\* it is <sanitized base>_<timestamp>.<extension>.
uploadDocPath(slot, file, t) ==
    [slot |-> slot, name |-> file.base, stamp |-> t, ext |-> file.ext]

\* uploadBytes(ref(storage, fullPath), file): an object at an existing path is
\* replaced, any other path gets a new object
uploadBytes(objects, path, content) ==
    {o \in objects : o.path # path} \cup {[path |-> path, content |-> content]}

\* uploadSingleFileWithTimeout(file, path): validateFile, then uploadDoc.
\* Yields the storage after the call; a rejected file or a missing user
\* leaves it unchanged (the promise rejects).
uploadSingleFileWithTimeout(objects, file, slot, t, user) ==
    IF file.valid /\ user
    THEN uploadBytes(objects, uploadDocPath(slot, file, t), file.content)
    ELSE objects

\* the uploads of one uploader call, file by file (Promise.all over the map)
RECURSIVE uploadAll(_, _, _, _, _)
uploadAll(objects, jobs, t, user, i) ==
    IF i > Len(jobs) THEN objects
    ELSE uploadAll(uploadSingleFileWithTimeout(objects, jobs[i].file, jobs[i].slot, t, user),
                   jobs, t, user, i + 1)

\* latest successful write per slot after the jobs
RECURSIVE recordWrites(_, _, _, _)
recordWrites(lw, jobs, user, i) ==
    IF i > Len(jobs) THEN lw
    ELSE LET j == jobs[i]
             lw2 == IF j.file.valid /\ user
                    THEN [s \in DOMAIN lw \cup {j.slot} |->
                            IF s = j.slot THEN j.file.content ELSE lw[s]]
                    ELSE lw
         IN recordWrites(lw2, jobs, user, i + 1)

\* index of files[i] among the files of its group (main or thumbnail)
GroupIndex(files, i) ==
    Cardinality({k \in 1..i : files[k].thumb = files[i].thumb})

\* ProductSlotUploader.uploadGallery: slot paths
\* portfolio/{id}/gallery/main/slot_{n}.webp and .../thumbnails/slot_{n}.webp
galleryJobs(files, id) ==
    [i \in 1..Len(files) |->
        [file |-> files[i],
         slot |-> [kind |-> IF files[i].thumb THEN "galleryThumb" ELSE "galleryMain",
                   id |-> id, h |-> 0, n |-> GroupIndex(files, i)]]]

\* ProductSlotUploader.uploadHighlightVisuals: one visual per highlight here,
\* slot path portfolio/{id}/highlights/h{highlight}_v{visual}.webp
highlightJobs(files, id) ==
    [i \in 1..Len(files) |->
        [file |-> files[i],
         slot |-> [kind |-> "highlight", id |-> id, h |-> i, n |-> 1]]]

\* SolutionSlotUploader.uploadSectionImages: solutions/{id}/sections/section_{n}
sectionJobs(files, id) ==
    [i \in 1..Len(files) |->
        [file |-> files[i],
         slot |-> [kind |-> "section", id |-> id, h |-> 0, n |-> i]]]

\* GenericSlotUploader.uploadMultipleFiles: {category}/{id}/{type}/slot_{n}
genericJobs(files, id) ==
    [i \in 1..Len(files) |->
        [file |-> files[i],
         slot |-> [kind |-> "generic", id |-> id, h |-> 0, n |-> i]]]

SlotStart ==
    /\ storageObjects = {}
    /\ clock = 0
    /\ currentUser = TRUE
    /\ uploadCalls = 0
    /\ lastWrite = << >>

RateStart ==
    /\ uploadRateLimitStore = << >>
    /\ rlNow = 0
    /\ rlRecent = << >>
    /\ rlLast = NoResult

PostStart ==
    /\ adminUploads = {}
    /\ lastReq = NoRequest
    /\ lastResp = NoResponse
    /\ storeBefore = << >>
    /\ uploadsBefore = {}

MiddlewareStart ==
    /\ mwEnv = [nodeEnv |-> "production", projectId |-> None]
    /\ mwNow = 0
    /\ mwReq = NoMwRequest
    /\ mwResp = NoMwResponse

\* bounds of the auth page model
AuthStepMs == 900000     \* the clock advances by 15 minutes
MaxAuthSteps == 4        \* clock values 0 .. MaxAuthSteps * AuthStepMs
MaxStep2Calls == 2       \* handleStep2 calls in flight at once
MaxLoginCalls == 3       \* login calls per behaviour

Emails == {"a@x.io", "b@x.io"}
NoCall == [pc |-> "idle", email |-> ""]
NoStep == [op |-> None, email |-> "", blockedBefore |-> FALSE, count |-> 0]

\* the page as mounted: the React state of a fresh page
PageMounted ==
    /\ email = ""
    /\ step = 1
    /\ password = ""
    /\ passwordError = FALSE
    /\ isBlocked = FALSE
    /\ isSubmitting = FALSE
    /\ loading = FALSE
    /\ intervals = {}
    /\ step2Calls = [i \in 1..MaxStep2Calls |-> NoCall]

AuthStart ==
    /\ PageMounted
    /\ authNow = 0
    /\ authUser = FALSE
    /\ loginAttempts = [e \in Emails |-> << >>]
    /\ loginBlock = [e \in Emails |-> 0]
    /\ loginCalls = 0
    /\ authLast = NoStep

\* the hook as mounted at time 0, before the auth state is known
HeartbeatStart ==
    /\ hbNow = 0
    /\ hbUser = FALSE
    /\ hbLoading = TRUE
    /\ lastActivityRef = 0
    /\ heartbeatIntervalRef = 0
    /\ documentHidden = FALSE
    /\ sessionClosed = -1
    /\ hbLogout = "none"
    /\ activitySinceStart = FALSE
    /\ hbLast = "none"

\* process.env as the admin module reads it: NODE_ENV, the service account
\* key of development (None, valid JSON, or not JSON) and whether each
\* required variable is set
AdminEnvs ==
    { [nodeEnv |-> n, serviceAccountKey |-> k, privateKey |-> pk, clientEmail |-> ce,
       projectId |-> pj] :
        n \in {"production", "development"}, k \in {None, "json", "notJson"},
        pk \in BOOLEAN, ce \in BOOLEAN, pj \in BOOLEAN }
NoAdminCall == [call |-> None, result |-> None, lockdownBefore |-> FALSE]

\* the module as loaded
AdminLoaded ==
    /\ adminApp = None
    /\ initializationError = None
    /\ initialized = FALSE
    /\ securityLockdown = FALSE
    /\ lockdownSeen = FALSE
    /\ adminLast = NoAdminCall

AdminStart ==
    /\ AdminLoaded
    /\ adminEnv = [nodeEnv |-> "production", serviceAccountKey |-> None,
                   privateKey |-> TRUE, clientEmail |-> TRUE, projectId |-> TRUE]

\* no forceLogout call made yet
NoOutcome == [invalidate |-> None, signOut |-> None, logout |-> None]
LogoutIdle ==
    /\ flPc = "idle"
    /\ flLog = << >>
    /\ flOutcome = NoOutcome
    /\ flLocation = "/admin"
    /\ flResult = "pending"

LogoutStart ==
    /\ LogoutIdle
    /\ flConfig = [includeServerInvalidation |-> TRUE, hasWindow |-> TRUE]
    /\ flLocalStorage = {}
    /\ flSessionStorage = {}
    /\ flCookies = {}
    /\ flBefore = [localStorage |-> {}, sessionStorage |-> {}, cookies |-> {}]

\* bounds of the sendOTP model
OtpStepMs == 10000          \* the clock advances by 10 seconds
MaxOtpSteps == 7            \* clock values OtpStepMs .. (MaxOtpSteps + 1) * OtpStepMs
MaxOtpCalls == 2            \* sendOTP calls awaiting Firebase at once
MaxOtpInvocations == 3      \* signInWithPhoneNumber invocations per behaviour

NoOtpCall == [pc |-> "idle", invokedAt |-> 0]
NoOtpReturn == [kind |-> None, sinceLastSent |-> 0]

\* the window as loaded, at a time after the epoch
OtpStart ==
    /\ otpNow = OtpStepMs
    /\ lastOtpSent = 0
    /\ recaptchaVerifier = FALSE
    /\ otpCalls = [i \in 1..MaxOtpCalls |-> NoOtpCall]
    /\ otpInvocations = << >>
    /\ otpSends = << >>
    /\ otpLast = NoOtpReturn

\* bound of the uploadToSlots model
MaxSlotFiles == 4           \* length of the files array of a call

\* a (File | null) entry: null, or a file that validateFile accepts or not
NullFile == [isNull |-> TRUE, base |-> None, valid |-> FALSE]
SlotFiles ==
    { NullFile,
      [isNull |-> FALSE, base |-> "a", valid |-> TRUE],
      [isNull |-> FALSE, base |-> "b", valid |-> FALSE] }

\* SLOT_CONFIGS.productResources and SLOT_CONFIGS.singleFile
SlotConfigs ==
    { [maxSlots |-> 3, basePath |-> "portfolio"],
      [maxSlots |-> 1, basePath |-> ""] }

NoSlotCall ==
    [files |-> << >>, config |-> [maxSlots |-> 1, basePath |-> ""], documentId |-> "p1",
     slug |-> "p1", fileType |-> "p1", subPath |-> None, startIndex |-> 0]

\* no call of uploadToSlots yet
SlotUploadStart ==
    /\ utArgs = NoSlotCall
    /\ utPc = [i \in 1..MaxSlotFiles |-> "none"]
    /\ uploadedSlots = << >>
    /\ errors = << >>
    /\ utUploads = {}
    /\ utResult = "idle"

SlotInit == SlotStart /\ RateStart /\ PostStart /\ MiddlewareStart /\ AuthStart /\ HeartbeatStart /\ AdminStart /\ LogoutStart /\ OtpStart /\ SlotUploadStart

RunUploader(jobs) ==
    /\ uploadCalls < MaxUploadCalls
    /\ uploadCalls' = uploadCalls + 1
    /\ storageObjects' = uploadAll(storageObjects, jobs, clock, currentUser, 1)
    /\ lastWrite' = recordWrites(lastWrite, jobs, currentUser, 1)
    /\ UNCHANGED <<clock, currentUser, outsideSlots>>

UploadGallery ==
    \E files \in FileSeqs, id \in EntityIds :
        /\ sanitizePathComponentOk(id)
        /\ RunUploader(galleryJobs(files, id))

UploadHighlightVisuals ==
    \E files \in FileSeqs, id \in EntityIds :
        /\ sanitizePathComponentOk(id)
        /\ RunUploader(highlightJobs(files, id))

UploadSectionImages ==
    \E files \in FileSeqs, id \in EntityIds :
        /\ sanitizePathComponentOk(id)
        /\ RunUploader(sectionJobs(files, id))

UploadMultipleFiles ==
    \E files \in FileSeqs, id \in EntityIds :
        /\ sanitizePathComponentOk(id)
        /\ RunUploader(genericJobs(files, id))

\* an uploader called with an id sanitizePathComponent rejects throws before
\* any upload starts
UploadRejectedId ==
    \E id \in EntityIds :
        /\ ~sanitizePathComponentOk(id)
        /\ uploadCalls < MaxUploadCalls
        /\ uploadCalls' = uploadCalls + 1
        /\ UNCHANGED <<storageObjects, clock, currentUser, lastWrite, outsideSlots>>

\* the user signs in or out (auth.currentUser)
AuthChange ==
    /\ currentUser' = ~currentUser
    /\ UNCHANGED <<storageObjects, clock, uploadCalls, lastWrite, outsideSlots>>

\* Date.now() advances
ClockTick ==
    /\ clock < MaxClock
    /\ clock' = clock + 1
    /\ UNCHANGED <<storageObjects, currentUser, uploadCalls, lastWrite, outsideSlots>>

SlotNext ==
    \/ UploadGallery
    \/ UploadHighlightVisuals
    \/ UploadSectionImages
    \/ UploadMultipleFiles
    \/ UploadRejectedId
    \/ AuthChange
    \/ ClockTick

SpecSlots == SlotInit /\ [][SlotNext]_vars

ObjectsOfSlot(s) == {o \in storageObjects : o.path.slot = s}

\* C1: slot uploads overwrite in place: after any sequence of uploads every
\* slot holds at most one stored object, and that object is the one written
\* by the latest upload to the slot.
C1_OverwriteInPlace ==
    \A s \in DOMAIN lastWrite :
        /\ Cardinality(ObjectsOfSlot(s)) <= 1
        /\ \A o \in ObjectsOfSlot(s) : o.content = lastWrite[s]

(***************************************************************************)
(* Upload rate limiter: checkUploadRateLimit and its cleanup timer         *)
(***************************************************************************)
windowMs == 60000            \* 1 minute window
maxRequests == 20            \* 20 uploads per minute
penaltyViolations == 3       \* violations from which the penalty applies
penaltyFactor == 3           \* penaltyWindow = windowMs * 3
cleanupGrace == 300000       \* 5 minute grace period of the cleanup timer

RateStepMs == 40000          \* smallest advance of the clock in the model
MaxRateSteps == 12           \* the clock stops at RateStepMs * MaxRateSteps
MaxViolations == 4           \* refused calls counted per record
RateKeys == {"upload_ip1_u1"}
\* the clock advances by a step, or by more than a window plus the grace period
RateAdvances == {RateStepMs, windowMs + cleanupGrace + RateStepMs}

\* record of a key after the expiry check and the initialisation of
\* checkUploadRateLimit
rateRecord(store, key, now) ==
    IF key \in DOMAIN store /\ ~(now > store[key].resetTime)
    THEN store[key]
    ELSE [count |-> 0, resetTime |-> now + windowMs, violations |-> 0]

setRecord(store, key, rec) ==
    [k \in DOMAIN store \cup {key} |-> IF k = key THEN rec ELSE store[k]]

\* checkUploadRateLimit with the limit compared by > instead of >=
checkUploadRateLimit_offByOne(store, key, now) ==
    LET record == rateRecord(store, key, now)
    IN IF record.count > maxRequests
       THEN LET v == record.violations + 1
                rt == IF v >= penaltyViolations
                      THEN Max(record.resetTime, now + windowMs * penaltyFactor)
                      ELSE record.resetTime
            IN [store |-> setRecord(store, key,
                              [count |-> record.count, resetTime |-> rt, violations |-> v]),
                success |-> FALSE, limit |-> maxRequests, remaining |-> 0, reset |-> rt]
       ELSE [store |-> setRecord(store, key,
                              [count |-> record.count + 1, resetTime |-> record.resetTime,
                               violations |-> record.violations]),
             success |-> TRUE, limit |-> maxRequests,
             remaining |-> maxRequests - (record.count + 1), reset |-> record.resetTime]

\* checkUploadRateLimit(key) at time now: the store after the call and the
\* returned {success, limit, remaining, reset}
checkUploadRateLimit(store, key, now) ==
    LET record == rateRecord(store, key, now)
    IN IF record.count >= maxRequests
       THEN LET v == record.violations + 1
                rt == IF v >= penaltyViolations
                      THEN Max(record.resetTime, now + windowMs * penaltyFactor)
                      ELSE record.resetTime
            IN [store |-> setRecord(store, key,
                              [count |-> record.count, resetTime |-> rt, violations |-> v]),
                success |-> FALSE, limit |-> maxRequests, remaining |-> 0, reset |-> rt]
       ELSE [store |-> setRecord(store, key,
                              [count |-> record.count + 1, resetTime |-> record.resetTime,
                               violations |-> record.violations]),
             success |-> TRUE, limit |-> maxRequests,
             remaining |-> maxRequests - (record.count + 1), reset |-> record.resetTime]

\* the setInterval callback: deletes the records expired for over 5 minutes
cleanupStore(store, now) ==
    [k \in {k \in DOMAIN store : ~(now > store[k].resetTime + cleanupGrace)} |-> store[k]]

\* successes of the last minute, per key (bookkeeping for the window claims)
recentOf(key) == IF key \in DOMAIN rlRecent THEN rlRecent[key] ELSE << >>
addRecent(rec, t) ==
    [u \in DOMAIN rec \cup {t} |-> IF u \in DOMAIN rec THEN rec[u] + (IF u = t THEN 1 ELSE 0) ELSE 1]
pruneRecent(rec, now) ==
    [u \in {u \in DOMAIN rec : now - u < windowMs} |-> rec[u]]
RECURSIVE SumOver(_, _)
SumOver(f, S) ==
    IF S = {} THEN 0
    ELSE LET x == CHOOSE x \in S : TRUE IN f[x] + SumOver(f, S \ {x})
RecentSuccesses(key) == SumOver(recentOf(key), DOMAIN recentOf(key))

\* a call of checkUploadRateLimit for a key (made by secureUploadWrapper for
\* an authenticated user)
CheckRateLimit ==
    \E key \in RateKeys :
        LET r == checkUploadRateLimit(uploadRateLimitStore, key, rlNow)
        IN /\ r.store[key].violations <= MaxViolations
           /\ uploadRateLimitStore' = r.store
           /\ rlLast' = [key |-> key, success |-> r.success,
                         remaining |-> r.remaining, reset |-> r.reset]
           /\ rlRecent' = IF r.success
                          THEN [k \in DOMAIN rlRecent \cup {key} |->
                                  IF k = key THEN addRecent(recentOf(key), rlNow)
                                  ELSE rlRecent[k]]
                          ELSE rlRecent
           /\ UNCHANGED <<rlNow, outsideRate>>

\* the server clock advances
RateAdvance ==
    \E d \in RateAdvances :
        /\ rlNow + d <= RateStepMs * MaxRateSteps
        /\ rlNow' = rlNow + d
        /\ rlRecent' = [k \in DOMAIN rlRecent |-> pruneRecent(rlRecent[k], rlNow + d)]
        /\ rlLast' = NoResult
        /\ UNCHANGED <<uploadRateLimitStore, outsideRate>>

\* the 5-minute cleanup timer fires
RateCleanup ==
    /\ uploadRateLimitStore' = cleanupStore(uploadRateLimitStore, rlNow)
    /\ rlLast' = NoResult
    /\ UNCHANGED <<rlNow, rlRecent, outsideRate>>

RateInit == SlotStart /\ RateStart /\ PostStart /\ MiddlewareStart /\ AuthStart /\ HeartbeatStart /\ AdminStart /\ LogoutStart /\ OtpStart /\ SlotUploadStart

RateNext ==
    \/ CheckRateLimit
    \/ RateAdvance
    \/ RateCleanup

SpecRate == RateInit /\ [][RateNext]_vars

\* C2 (as claimed): sliding window, at most 20 successful calls per key in
\* any 60-second interval.
C2_SlidingWindow ==
    \A key \in RateKeys : RecentSuccesses(key) <= maxRequests

\* C2 (amended): fixed window.  A record never counts more than 20
\* successful calls before its reset time, and a 60-second interval meets at
\* most two records of a key, so at most 40 calls of a key succeed in it.
C2_FixedWindow ==
    \A key \in RateKeys :
        /\ key \in DOMAIN uploadRateLimitStore =>
              uploadRateLimitStore[key].count <= maxRequests
        /\ RecentSuccesses(key) <= 2 * maxRequests
        /\ (rlLast.key = key /\ rlLast.success) =>
              /\ uploadRateLimitStore[key].count = maxRequests - rlLast.remaining
              /\ rlNow <= uploadRateLimitStore[key].resetTime

\* C2 witness: a call was refused after 20 successes in the window, and in
\* another state a second window has begun within the same minute.
C2_Witness ==
    \E key \in RateKeys :
        /\ RecentSuccesses(key) > maxRequests
        /\ rlLast.key = key /\ ~rlLast.success

(***************************************************************************)
(* POST /api/admin/upload: secureUploadWrapper around handleFileUpload     *)
(***************************************************************************)
maxUploadBytes == 10485760     \* 10 * 1024 * 1024

ClientIp == "ip1"
Users == {"u1"}
\* what validateFirebaseToken(request) yields: a user, null ("none"), or an
\* exception ("throws")
TokenResults == Users \cup {None, "throws"}
\* Content-Length header values; None is a request without the header
ContentLengths == {None, "", "10485760", "10485761"}
\* parseInt of a header value
parseInt(h) ==
    CASE h = "10485760" -> 10485760
      [] h = "10485761" -> 10485761
      [] OTHER -> -1             \* NaN: every comparison with it is false

FormFiles ==
    { NoFile,
      [size |-> 0, check |-> "valid"],
      [size |-> 1, check |-> "valid"],
      [size |-> 1, check |-> "invalid"],
      [size |-> 1, check |-> "throws"],
      [size |-> maxUploadBytes, check |-> "valid"],
      [size |-> maxUploadBytes + 1, check |-> "valid"] }
\* path fields of the form; None is a form without the field
FormPaths == {None, "", "products/p1", "private/x"}
\* isPathAllowed of uploadConfig: the path starts with an allowed prefix
isPathAllowed(path) == path = "products/p1"
\* storageOk: uploadBytes and getDownloadURL succeed; it is drawn FALSE only
\* for a form that reaches them
Forms ==
    {NoForm} \cup
    { [parsed |-> TRUE, file |-> f, path |-> q, storageOk |-> TRUE] :
        f \in FormFiles, q \in FormPaths }
    \cup
    { [parsed |-> TRUE, file |-> [size |-> 1, check |-> "valid"],
       path |-> "products/p1", storageOk |-> FALSE] }

Requests ==
    { [token |-> t, contentLength |-> c, form |-> f] :
        t \in TokenResults, c \in ContentLengths, f \in Forms }

\* handleFileUpload with the path check left out
handleFileUpload_noPathCheck(form, uid, now, uploads) ==
    IF ~form.parsed THEN [status |-> 400, wrote |-> FALSE, uploads |-> uploads]
    ELSE IF form.file = NoFile \/ form.path = None \/ form.path = ""
    THEN [status |-> 400, wrote |-> FALSE, uploads |-> uploads]
    ELSE IF form.file.size > maxUploadBytes
    THEN [status |-> 400, wrote |-> FALSE, uploads |-> uploads]
    ELSE IF form.file.size = 0
    THEN [status |-> 400, wrote |-> FALSE, uploads |-> uploads]
    ELSE IF form.file.check # "valid"
    THEN [status |-> 400, wrote |-> FALSE, uploads |-> uploads]
    ELSE IF ~form.storageOk
    THEN [status |-> 500, wrote |-> FALSE, uploads |-> uploads]
    ELSE [status |-> 200, wrote |-> TRUE,
          uploads |-> uploads \cup {[uid |-> uid, path |-> form.path, stamp |-> now]}]

\* handleFileUpload(request, user) at time now: the response status, whether
\* uploadBytes stored the file, and the storage after it
handleFileUpload(form, uid, now, uploads) ==
    IF ~form.parsed THEN [status |-> 400, wrote |-> FALSE, uploads |-> uploads]
    ELSE IF form.file = NoFile \/ form.path = None \/ form.path = ""
    THEN [status |-> 400, wrote |-> FALSE, uploads |-> uploads]
    ELSE IF form.file.size > maxUploadBytes
    THEN [status |-> 400, wrote |-> FALSE, uploads |-> uploads]
    ELSE IF form.file.size = 0
    THEN [status |-> 400, wrote |-> FALSE, uploads |-> uploads]
    ELSE IF form.file.check # "valid"
    THEN [status |-> 400, wrote |-> FALSE, uploads |-> uploads]
    ELSE IF ~isPathAllowed(form.path)
    THEN [status |-> 400, wrote |-> FALSE, uploads |-> uploads]
    ELSE IF ~form.storageOk
    THEN [status |-> 500, wrote |-> FALSE, uploads |-> uploads]
    ELSE [status |-> 200, wrote |-> TRUE,
          uploads |-> uploads \cup {[uid |-> uid, path |-> form.path, stamp |-> now]}]

rateLimitKey(ip, uid) == <<"upload", ip, uid>>

\* Math.ceil((reset - now) / 1000)
retryAfterSeconds(reset, now) == (reset - now + 999) \div 1000

\* secureUploadWrapper with the Content-Length check made before the rate limit
secureUploadWrapper_sizeFirst(req, store, now, uploads) ==
    IF req.token = "throws"
    THEN [status |-> 500, retryAfter |-> -1, handlerRan |-> FALSE, wrote |-> FALSE,
          store |-> store, uploads |-> uploads]
    ELSE IF req.token = None
    THEN [status |-> 401, retryAfter |-> -1, handlerRan |-> FALSE, wrote |-> FALSE,
          store |-> store, uploads |-> uploads]
    ELSE IF req.contentLength # None /\ req.contentLength # ""
            /\ parseInt(req.contentLength) > maxUploadBytes
    THEN [status |-> 413, retryAfter |-> -1, handlerRan |-> FALSE, wrote |-> FALSE,
          store |-> store, uploads |-> uploads]
    ELSE LET r == checkUploadRateLimit(store, rateLimitKey(ClientIp, req.token), now)
         IN IF ~r.success
            THEN [status |-> 429, retryAfter |-> retryAfterSeconds(r.reset, now),
                  handlerRan |-> FALSE, wrote |-> FALSE,
                  store |-> r.store, uploads |-> uploads]
            ELSE LET h == handleFileUpload(req.form, req.token, now, uploads)
                 IN [status |-> h.status, retryAfter |-> -1, handlerRan |-> TRUE,
                     wrote |-> h.wrote, store |-> r.store, uploads |-> h.uploads]

\* secureUploadWrapper(handler, request): the response, and the rate-limit
\* store and the storage after it
secureUploadWrapper(req, store, now, uploads) ==
    IF req.token = "throws"
    THEN [status |-> 500, retryAfter |-> -1, handlerRan |-> FALSE, wrote |-> FALSE,
          store |-> store, uploads |-> uploads]
    ELSE IF req.token = None
    THEN [status |-> 401, retryAfter |-> -1, handlerRan |-> FALSE, wrote |-> FALSE,
          store |-> store, uploads |-> uploads]
    ELSE LET r == checkUploadRateLimit(store, rateLimitKey(ClientIp, req.token), now)
         IN IF ~r.success
            THEN [status |-> 429, retryAfter |-> retryAfterSeconds(r.reset, now),
                  handlerRan |-> FALSE, wrote |-> FALSE,
                  store |-> r.store, uploads |-> uploads]
            ELSE IF req.contentLength # None /\ req.contentLength # ""
                    /\ parseInt(req.contentLength) > maxUploadBytes
            THEN [status |-> 413, retryAfter |-> -1, handlerRan |-> FALSE, wrote |-> FALSE,
                  store |-> r.store, uploads |-> uploads]
            ELSE LET h == handleFileUpload(req.form, req.token, now, uploads)
                 IN [status |-> h.status, retryAfter |-> -1, handlerRan |-> TRUE,
                     wrote |-> h.wrote, store |-> r.store, uploads |-> h.uploads]

\* a request; its body (the form) is read only when the wrapper reaches the
\* handler
POST ==
    \E req \in Requests :
        LET out == secureUploadWrapper(req, uploadRateLimitStore, rlNow, adminUploads)
        IN /\ (req.form # NoForm) = out.handlerRan
           /\ \A k \in DOMAIN out.store : out.store[k].violations <= MaxViolations
           /\ lastReq' = req
           /\ lastResp' = [status |-> out.status, retryAfter |-> out.retryAfter,
                           handlerRan |-> out.handlerRan, wrote |-> out.wrote]
           /\ storeBefore' = uploadRateLimitStore
           /\ uploadsBefore' = adminUploads
           /\ uploadRateLimitStore' = out.store
           /\ adminUploads' = out.uploads
           /\ UNCHANGED <<rlNow, outsideUpload>>

UploadInit == SlotStart /\ RateStart /\ PostStart /\ MiddlewareStart /\ AuthStart /\ HeartbeatStart /\ AdminStart /\ LogoutStart /\ OtpStart /\ SlotUploadStart

UploadNext == POST

SpecUpload == UploadInit /\ [][UploadNext]_vars

\* what the latest request offered, read off the request itself
Authenticated == lastReq.token \in Users
ReqKey == rateLimitKey(ClientIp, lastReq.token)
RateOk ==
    \/ ReqKey \notin DOMAIN storeBefore
    \/ rlNow > storeBefore[ReqKey].resetTime
    \/ storeBefore[ReqKey].count < maxRequests
ContentLengthOk == lastReq.contentLength # "10485761"
CountOf(store, key) == IF key \in DOMAIN store THEN store[key].count ELSE 0

\* C3: the upload handler runs only after authentication, then the rate
\* limit of the user's key, then the Content-Length check; a failure of the
\* three is answered 401, 429 (with Retry-After) and 413 without running
\* the handler, and a request without a valid token leaves the rate-limit
\* store as it was.
C3_WrapperOrder ==
    lastReq # NoRequest =>
        /\ lastResp.handlerRan <=> (Authenticated /\ RateOk /\ ContentLengthOk)
        /\ lastReq.token = None =>
              /\ lastResp.status = 401
              /\ ~lastResp.handlerRan
        /\ ~Authenticated =>
              /\ uploadRateLimitStore = storeBefore
              /\ adminUploads = uploadsBefore
        /\ (Authenticated /\ ~RateOk) =>
              /\ lastResp.status = 429
              /\ lastResp.retryAfter >= 0
              /\ ~lastResp.handlerRan
        /\ (Authenticated /\ RateOk /\ ~ContentLengthOk) =>
              /\ lastResp.status = 413
              /\ ~lastResp.handlerRan
              \* the rate limit was charged before the size was looked at
              /\ CountOf(uploadRateLimitStore, ReqKey) = CountOf(storeBefore, ReqKey) + 1
        /\ lastResp.retryAfter >= 0 => lastResp.status = 429

\* C3 witness: a request of an authenticated user refused by the rate limit,
\* with an oversized Content-Length that was never looked at
C3_Witness ==
    /\ Authenticated /\ ~RateOk /\ ~ContentLengthOk
    /\ lastResp.status = 429

FormComplete ==
    /\ lastReq.form.parsed
    /\ lastReq.form.file # NoFile
    /\ lastReq.form.path \notin {None, ""}
SizeOk == 0 < lastReq.form.file.size /\ lastReq.form.file.size <= maxUploadBytes
UploadConditions ==
    /\ FormComplete
    /\ SizeOk
    /\ lastReq.form.file.check = "valid"
    /\ isPathAllowed(lastReq.form.path)

\* C4: handleFileUpload stores an object only for a form with a file and a
\* path, a size in 1..10 MB, a file validateFile accepts and an allowed path;
\* in every other case it answers 400 and the storage is unchanged.
C4_HandlerWrites ==
    lastResp.handlerRan =>
        /\ lastResp.wrote => UploadConditions
        /\ adminUploads # uploadsBefore => lastResp.wrote
        /\ ~UploadConditions =>
              /\ lastResp.status = 400
              /\ ~lastResp.wrote
              /\ adminUploads = uploadsBefore
        /\ lastResp.wrote =>
              /\ lastResp.status = 200
              /\ \E o \in adminUploads :
                    o.uid = lastReq.token /\ o.path = lastReq.form.path

\* C4 witness: a 10 MB file is stored, and the same file with a path outside
\* the allowed ones is refused
C4_Witness ==
    /\ lastResp.handlerRan
    /\ lastReq.form.file.size = maxUploadBytes
    /\ lastReq.form.file.check = "valid"
    /\ lastReq.form.path = "private/x"
    /\ lastResp.status = 400
    /\ adminUploads # {}

(***************************************************************************)
(* Request middleware: bot block, admin page gating, CORS, security headers *)
(***************************************************************************)
StartsWith(str, prefix) ==
    Len(prefix) <= Len(str) /\ SubSeq(str, 1, Len(prefix)) = prefix
EndsWith(str, suffix) ==
    Len(suffix) <= Len(str)
    /\ SubSeq(str, Len(str) - Len(suffix) + 1, Len(str)) = suffix

\* pathnames, as sequences of characters
Path_admin == <<"/", "a", "d", "m", "i", "n">>
Path_adminProducts == <<"/", "a", "d", "m", "i", "n", "/", "p", "r", "o", "d", "u", "c", "t", "s">>
Path_administrator == <<"/", "a", "d", "m", "i", "n", "i", "s", "t", "r", "a", "t", "o", "r">>
Path_adminPng == <<"/", "a", "d", "m", "i", "n", "/", "a", ".", "p", "n", "g">>
Path_apiAdmin == <<"/", "a", "p", "i", "/", "a", "d", "m", "i", "n">>
Path_apiAdminUpload == <<"/", "a", "p", "i", "/", "a", "d", "m", "i", "n", "/", "u", "p", "l", "o", "a", "d">>
Path_apiAuthLogout == <<"/", "a", "p", "i", "/", "a", "u", "t", "h", "/", "l", "o", "g", "o", "u", "t">>
Path_apiPublic == <<"/", "a", "p", "i", "/", "p", "u", "b", "l", "i", "c", "/", "x">>
Path_about == <<"/", "a", "b", "o", "u", "t">>
Pathnames ==
    { Path_root, Path_admin, Path_adminProducts, Path_administrator, Path_adminPng,
      Path_apiAdmin, Path_apiAdminUpload, Path_apiAuthLogout, Path_apiPublic, Path_about }

Prefix_admin == <<"/", "a", "d", "m", "i", "n">>
Prefix_api == <<"/", "a", "p", "i", "/">>
Prefix_apiAdminSlash == <<"/", "a", "p", "i", "/", "a", "d", "m", "i", "n", "/">>
Prefix_apiAdmin == <<"/", "a", "p", "i", "/", "a", "d", "m", "i", "n">>
Prefix_apiAuthSlash == <<"/", "a", "p", "i", "/", "a", "u", "t", "h", "/">>
Prefix_apiPublicSlash == <<"/", "a", "p", "i", "/", "p", "u", "b", "l", "i", "c", "/">>
Suffix_png == <<".", "p", "n", "g">>

\* config.matcher: the middleware is not run for paths ending in an image
\* extension (nor for _next/static, _next/image, favicon.ico)
matcher(pathname) == ~EndsWith(pathname, Suffix_png)

\* lengths of the strings the token checks measure
StrLen(str) ==
    CASE str = "ab" -> 2
      [] str = "proj" -> 4
      [] str = "other" -> 5
      [] str = "short" -> 5
      [] str = "kid" -> 3
      [] str = "key-id-0123456789" -> 17
      [] str = "user-0123456789" -> 15
      [] OTHER -> 0

Jwts ==
    { ValidJwt,
      [ValidJwt EXCEPT !.parts = 2],
      [ValidJwt EXCEPT !.headerOk = FALSE],
      [ValidJwt EXCEPT !.alg = "HS256"],
      [ValidJwt EXCEPT !.kid = None],
      [ValidJwt EXCEPT !.kid = "kid"],
      [ValidJwt EXCEPT !.payloadOk = FALSE],
      [ValidJwt EXCEPT !.iss = None],
      [ValidJwt EXCEPT !.iss = "foreign"],
      [ValidJwt EXCEPT !.iss = "other", !.aud = "other"],
      [ValidJwt EXCEPT !.aud = None],
      [ValidJwt EXCEPT !.aud = "ab"],
      [ValidJwt EXCEPT !.aud = "other"],
      [ValidJwt EXCEPT !.sub = None],
      [ValidJwt EXCEPT !.sub = "short"],
      [ValidJwt EXCEPT !.exp = 0],
      [ValidJwt EXCEPT !.iat = 0],
      [ValidJwt EXCEPT !.iat = 4400],
      [ValidJwt EXCEPT !.iat = 100],
      [ValidJwt EXCEPT !.exp = 4000],
      [ValidJwt EXCEPT !.firebase = "string"],
      [ValidJwt EXCEPT !.firebase = None],
      [ValidJwt EXCEPT !.authTime = 3900],
      [ValidJwt EXCEPT !.authTime = 4100] }

\* the firebaseToken cookie: absent, empty, or a token
Cookies ==
    { [kind |-> "absent", jwt |-> ValidJwt], [kind |-> "empty", jwt |-> ValidJwt] }
    \cup { [kind |-> "jwt", jwt |-> j] : j \in Jwts }

\* validateFirebaseTokenStructure(token) at time now (seconds): "ok" or the
\* reason of the rejection
validateFirebaseTokenStructure(jwt, now, projectId) ==
    IF jwt.parts # 3 THEN "Invalid JWT structure"
    ELSE IF ~jwt.headerOk THEN "Invalid JWT header encoding"
    ELSE IF jwt.alg # "RS256" THEN "Invalid algorithm"
    ELSE IF jwt.kid = None \/ StrLen(jwt.kid) < 10 THEN "Missing or invalid key ID"
    ELSE IF ~jwt.payloadOk THEN "Invalid JWT payload encoding"
    ELSE IF jwt.iss = None \/ jwt.iss = "foreign" THEN "Invalid issuer"
    ELSE IF jwt.aud = None \/ StrLen(jwt.aud) < 3 THEN "Missing or invalid audience"
    ELSE IF jwt.sub = None \/ StrLen(jwt.sub) < 10 THEN "Missing or invalid subject"
    ELSE IF jwt.exp = 0 \/ jwt.iat = 0 THEN "Missing or invalid expiry/issued times"
    ELSE IF jwt.exp <= now THEN "Token has expired"
    ELSE IF jwt.iat > now + 300 THEN "Token issued in future"
    ELSE IF now - jwt.iat > 3600 THEN "Token is too old"
    ELSE IF projectId # None /\ jwt.iss # projectId
    THEN "Token issuer does not match project"
    ELSE IF projectId # None /\ jwt.aud # projectId
    THEN "Token audience does not match project"
    ELSE IF jwt.firebase # None /\ jwt.firebase # "object"
    THEN "Invalid firebase claims structure"
    ELSE IF jwt.authTime # 0 /\ jwt.authTime > now THEN "Invalid authentication time"
    ELSE "ok"

\* securityHeaders; the Content-Security-Policy value, the same list of
\* directives in production and development, is abbreviated
securityHeaders ==
    ("X-DNS-Prefetch-Control" :> "on")
    @@ ("X-Content-Type-Options" :> "nosniff")
    @@ ("X-Frame-Options" :> "SAMEORIGIN")
    @@ ("X-XSS-Protection" :> "1; mode=block")
    @@ ("Referrer-Policy" :> "strict-origin-when-cross-origin")
    @@ ("Permissions-Policy" :> "camera=(), microphone=(), geolocation=(), interest-cohort=()")
    @@ ("Content-Security-Policy" :> "default-src 'self'; ...")

\* suspiciousBots.some(bot => userAgent.toLowerCase().includes(bot))
UserAgents == {"Mozilla/5.0", "curl/8.0", ""}
isSuspiciousBot(userAgent) == userAgent = "curl/8.0"

allowedOrigins(nodeEnv) ==
    IF nodeEnv = "production"
    THEN {"https://consortdigital.com", "https://www.consortdigital.com"}
    ELSE {"http://localhost:3000", "https://localhost:3000"}

\* Origin header values; None is a request without the header, "null" is the
\* origin a browser sends for an opaque origin (a sandboxed frame, a data: URL)
Origins ==
    {None, "https://consortdigital.com", "http://localhost:3000", "https://evil.example",
     "null"}

\* allowedOrigins.includes(origin || '') ? origin : 'null'
allowOrigin(origin, nodeEnv) ==
    IF origin # None /\ origin \in allowedOrigins(nodeEnv) THEN origin ELSE "null"

Methods == {"GET", "POST", "OPTIONS"}

MwRequests ==
    { [pathname |-> q, method |-> m, origin |-> o, userAgent |-> ua, cookie |-> c] :
        q \in Pathnames, m \in Methods, o \in Origins, ua \in UserAgents, c \in Cookies }

\* NextResponse.next() with the security headers set, and the CORS headers
\* for the API routes
passThrough(extraHeaders) ==
    [kind |-> "next", status |-> 200, location |-> None,
     headers |-> extraHeaders @@ securityHeaders]
preflight(extraHeaders) ==
    [kind |-> "preflight", status |-> 200, location |-> None,
     headers |-> extraHeaders @@ securityHeaders]
\* NextResponse.redirect(new URL('/auth', request.url))
redirectToAuth ==
    [kind |-> "redirect", status |-> 307, location |-> "/auth",
     headers |-> ("Location" :> "/auth")]
\* new NextResponse('Access Denied', { status: 403 })
accessDenied ==
    [kind |-> "blocked", status |-> 403, location |-> None, headers |-> << >>]

corsHeaders(req, env) ==
    ("Access-Control-Allow-Origin" :> allowOrigin(req.origin, env.nodeEnv))
    @@ ("Access-Control-Allow-Credentials" :> "true")
preflightHeaders(req, env, methods, allowHeaders) ==
    corsHeaders(req, env)
    @@ ("Access-Control-Allow-Methods" :> methods)
    @@ ("Access-Control-Allow-Headers" :> allowHeaders)
    @@ ("Access-Control-Max-Age" :> "3600")
    @@ ("Vary" :> "Origin")

adminGatePasses_presentOnly(req, env, now) ==
    req.cookie.kind = "jwt"

\* the admin page gate: TRUE when the request may go on
adminGatePasses(req, env, now) ==
    /\ req.cookie.kind = "jwt"
    /\ validateFirebaseTokenStructure(req.cookie.jwt, now, env.projectId) = "ok"

\* the routes after the admin page gate
routeResponse(req, env) ==
    IF StartsWith(req.pathname, Prefix_apiAdminSlash)
    THEN IF req.method = "OPTIONS"
         THEN preflight(preflightHeaders(req, env, "POST, GET, OPTIONS",
                                         "Content-Type, Authorization, Cookie"))
         ELSE passThrough(corsHeaders(req, env))
    ELSE IF StartsWith(req.pathname, Prefix_apiAuthSlash)
            \/ StartsWith(req.pathname, Prefix_apiPublicSlash)
    THEN IF req.method = "OPTIONS"
         THEN preflight(preflightHeaders(req, env, "GET, POST, OPTIONS",
                                         "Content-Type, Authorization"))
         ELSE passThrough(corsHeaders(req, env))
    ELSE passThrough(<< >>)

\* middleware(request)
middleware(req, env, now) ==
    IF isSuspiciousBot(req.userAgent) /\ ~StartsWith(req.pathname, Prefix_api)
       /\ env.nodeEnv = "production"
    THEN accessDenied
    ELSE IF StartsWith(req.pathname, Prefix_admin)
            /\ ~StartsWith(req.pathname, Prefix_apiAdmin)
            /\ ~adminGatePasses(req, env, now)
    THEN redirectToAuth
    ELSE routeResponse(req, env)

MwEnvs ==
    { [nodeEnv |-> n, projectId |-> q] :
        n \in {"production", "development"}, q \in {None, "proj"} }
MwTimes == {4000, 8000}

\* the middleware answers a request the matcher selects
Middleware ==
    /\ mwResp = NoMwResponse
    /\ matcher(mwReq.pathname)
    /\ mwResp' = middleware(mwReq, mwEnv, mwNow)
    /\ UNCHANGED <<mwEnv, mwNow, mwReq, outsideMiddleware>>

\* a request the matcher leaves out is served without the middleware
Unmatched ==
    /\ mwResp = NoMwResponse
    /\ ~matcher(mwReq.pathname)
    /\ mwResp' = [kind |-> "unmatched", status |-> 200, location |-> None,
                  headers |-> << >>]
    /\ UNCHANGED <<mwEnv, mwNow, mwReq, outsideMiddleware>>

MiddlewareInit ==
    /\ SlotStart /\ RateStart /\ PostStart /\ AuthStart /\ HeartbeatStart /\ AdminStart /\ LogoutStart /\ OtpStart /\ SlotUploadStart
    /\ mwEnv \in MwEnvs
    /\ mwNow \in MwTimes
    /\ mwReq \in MwRequests
    /\ mwResp = NoMwResponse

MiddlewareNext ==
    \/ Middleware
    \/ Unmatched

SpecMiddleware == MiddlewareInit /\ [][MiddlewareNext]_vars

IsAdminPage(pathname) ==
    StartsWith(pathname, Prefix_admin) /\ ~StartsWith(pathname, Prefix_apiAdmin)
Answered == mwResp # NoMwResponse /\ mwResp.kind # "unmatched"
TokenAccepted ==
    /\ mwReq.cookie.kind = "jwt"
    /\ validateFirebaseTokenStructure(mwReq.cookie.jwt, mwNow, mwEnv.projectId) = "ok"
IsRedirectToAuth == mwResp.kind = "redirect" /\ mwResp.location = "/auth"
BotBlocked == isSuspiciousBot(mwReq.userAgent) /\ mwEnv.nodeEnv = "production"

C6_HeadersOnAllResponses ==
    Answered =>
        \A h \in DOMAIN securityHeaders :
            h \in DOMAIN mwResp.headers /\ mwResp.headers[h] = securityHeaders[h]

\* the requests the CORS branches of the middleware answer
UnderCorsPrefix ==
    \/ StartsWith(mwReq.pathname, Prefix_apiAdminSlash)
    \/ StartsWith(mwReq.pathname, Prefix_apiAuthSlash)
    \/ StartsWith(mwReq.pathname, Prefix_apiPublicSlash)
OriginAllowed == mwReq.origin \in allowedOrigins(mwEnv.nodeEnv)
HasAllowOrigin == "Access-Control-Allow-Origin" \in DOMAIN mwResp.headers
AllowOriginHeader == mwResp.headers["Access-Control-Allow-Origin"]

\* for every request but one with the header Origin: null, the header
\* Access-Control-Allow-Origin is the origin when it is allowed and 'null'
\* when it is not, and it is never a wildcard
CorsOriginUnlessNullOrigin ==
    (Answered /\ UnderCorsPrefix) =>
        /\ HasAllowOrigin
        /\ AllowOriginHeader # "*"
        /\ AllowOriginHeader = (IF OriginAllowed THEN mwReq.origin ELSE "null")
        /\ mwReq.origin # "null" => (AllowOriginHeader = mwReq.origin <=> OriginAllowed)

\* C14: for every request under /api/admin/, /api/auth/ or /api/public/,
\* preflight or not, the response header Access-Control-Allow-Origin equals
\* the request's Origin header exactly when that origin is in the allowed list
\* of the current environment, and is the literal 'null' otherwise; it is
\* never a wildcard.
C14_CorsOrigin ==
    (Answered /\ UnderCorsPrefix) =>
        /\ HasAllowOrigin
        /\ AllowOriginHeader # "*"
        /\ AllowOriginHeader = mwReq.origin <=> OriginAllowed
        /\ ~OriginAllowed => AllowOriginHeader = "null"

(***************************************************************************)
(* Auth page: login lockout                                                *)
(***************************************************************************)
MAX_ATTEMPTS == 5
BLOCK_DURATION == 900000
attemptWindowMs == 3600000

Passwords == {"", "Str0ng!pass"}
\* isValidPassword(sanitizePassword(password)).isValid
isValidPassword(pw) == pw = "Str0ng!pass"

\* attempts.filter(timestamp => timestamp > oneHourAgo)
FilterRecent(attempts, oneHourAgo) ==
    SelectSeq(attempts, LAMBDA timestamp : timestamp > oneHourAgo)

IdleSlots == { i \in 1..MaxStep2Calls : step2Calls[i].pc = "idle" }
FreeSlot == CHOOSE i \in IdleSlots : \A j \in IdleSlots : i <= j

\* the record of a step: the login calls and the recordings of failed attempts
\* are told apart; blockedBefore: when the step began isBlocked held, the page
\* showed the email of the step and the block of that email was stored
Did(op, e, count) ==
    IF op \in {"callLogin", "recordFailure"}
    THEN [op |-> op, email |-> e,
          blockedBefore |-> (isBlocked /\ e = email /\ loginBlock[e] # 0),
          count |-> count]
    ELSE [op |-> "other", email |-> "", blockedBefore |-> FALSE, count |-> 0]

authStorage == <<loginAttempts, loginBlock>>
authForm == <<email, step, password, passwordError>>

\* the effect on [email]: checkBlock() for the new email.  The cleanup
\* checkBlock returns is not returned by the effect, so the intervals of the
\* emails typed before keep running.
TypeEmail ==
    \E e \in Emails \cup {""} :
        /\ ~authUser /\ step = 1 /\ ~loading
        /\ e # email
        /\ email' = e
        /\ IF e = "" \/ loginBlock[e] = 0
           THEN UNCHANGED <<isBlocked, intervals, loginBlock>>
           ELSE IF authNow < loginBlock[e]
           THEN /\ isBlocked' = TRUE
                /\ intervals' = intervals \cup {[key |-> e, blockedUntil |-> loginBlock[e]]}
                /\ UNCHANGED loginBlock
           ELSE /\ loginBlock' = [loginBlock EXCEPT ![e] = 0]
                /\ isBlocked' = FALSE
                /\ UNCHANGED intervals
        /\ authLast' = Did("typeEmail", e, 0)
        /\ UNCHANGED <<authNow, step, password, passwordError, isSubmitting, loading,
                       authUser, loginAttempts, step2Calls, loginCalls, outsideAuth>>

\* the password input's onChange: setPassword and validatePassword
TypePassword ==
    \E pw \in Passwords :
        /\ ~authUser /\ step = 2 /\ ~loading
        /\ pw # password
        /\ password' = pw
        /\ passwordError' = (pw # "" /\ ~isValidPassword(pw))
        /\ authLast' = Did("typePassword", email, 0)
        /\ UNCHANGED <<authNow, email, step, isBlocked, isSubmitting, loading, authUser,
                       authStorage, intervals, step2Calls, loginCalls, outsideAuth>>

\* handleStep1, by the button or the Enter key
handleStep1 ==
    /\ ~authUser /\ step = 1 /\ ~loading
    /\ email # ""
    /\ step' = 2
    /\ authLast' = Did("handleStep1", email, 0)
    /\ UNCHANGED <<authNow, email, password, passwordError, isBlocked, isSubmitting,
                   loading, authUser, authStorage, intervals, step2Calls, loginCalls,
                   outsideAuth>>

handleBack ==
    /\ ~authUser /\ step = 2 /\ ~loading
    /\ step' = 1
    /\ password' = ""
    /\ passwordError' = FALSE
    /\ authLast' = Did("handleBack", email, 0)
    /\ UNCHANGED <<authNow, email, isBlocked, isSubmitting, loading, authUser,
                   authStorage, intervals, step2Calls, loginCalls, outsideAuth>>

\* the Sign In button is enabled
ButtonEnabled ==
    ~loading /\ ~isSubmitting /\ password # "" /\ ~isBlocked /\ ~passwordError
\* handleKeyPress: the Enter key in the password input (disabled while loading)
EnterEnabled == ~loading

\* handleStep2 up to its first await: the password check, the isBlocked check,
\* and the call of login, which sets loading
handleStep2 ==
    /\ ~authUser /\ step = 2
    /\ ButtonEnabled \/ EnterEnabled
    /\ IF ~isValidPassword(password)
       THEN /\ passwordError' = TRUE
            /\ authLast' = Did("invalidPassword", email, 0)
            /\ UNCHANGED <<isSubmitting, loading, step2Calls, loginCalls>>
       ELSE /\ IdleSlots # {}
            /\ UNCHANGED passwordError
            /\ IF isBlocked
               THEN /\ step2Calls' = [step2Calls EXCEPT ![FreeSlot] =
                                         [pc |-> "logBlocked", email |-> email]]
                    /\ authLast' = Did("blocked", email, 0)
                    /\ UNCHANGED <<isSubmitting, loading, loginCalls>>
               ELSE /\ loginCalls < MaxLoginCalls
                    /\ isSubmitting' = TRUE
                    /\ loading' = TRUE
                    /\ loginCalls' = loginCalls + 1
                    /\ step2Calls' = [step2Calls EXCEPT ![FreeSlot] =
                                         [pc |-> "login", email |-> email]]
                    /\ authLast' = Did("callLogin", email, 0)
    /\ UNCHANGED <<authNow, email, step, password, isBlocked, authUser, authStorage,
                   intervals, outsideAuth>>

\* login settles: its finally clears loading, and handleStep2 goes on to the
\* await of logSecurityEvent (login_success or login_failed)
LoginSettles ==
    \E i \in 1..MaxStep2Calls, ok \in BOOLEAN :
        /\ step2Calls[i].pc = "login"
        /\ loading' = FALSE
        /\ authUser' = (authUser \/ ok)
        /\ step2Calls' = [step2Calls EXCEPT ![i].pc = IF ok THEN "logSuccess" ELSE "logFailed"]
        /\ authLast' = Did(IF ok THEN "loginOk" ELSE "loginFailed", step2Calls[i].email, 0)
        /\ UNCHANGED <<authNow, authForm, isBlocked, isSubmitting, authStorage, intervals,
                       loginCalls, outsideAuth>>

\* after a successful login: both localStorage items of the email are removed
AfterLoginSuccess ==
    \E i \in 1..MaxStep2Calls :
        LET e == step2Calls[i].email IN
        /\ step2Calls[i].pc = "logSuccess"
        /\ loginAttempts' = [loginAttempts EXCEPT ![e] = << >>]
        /\ loginBlock' = [loginBlock EXCEPT ![e] = 0]
        /\ step2Calls' = [step2Calls EXCEPT ![i].pc = "submitTimer"]
        /\ authLast' = Did("cleared", e, 0)
        /\ UNCHANGED <<authNow, authForm, isBlocked, isSubmitting, loading, authUser,
                       intervals, loginCalls, outsideAuth>>

\* setTimeout(() => setIsSubmitting(false), 1000)
SubmitTimer ==
    \E i \in 1..MaxStep2Calls :
        /\ step2Calls[i].pc = "submitTimer"
        /\ isSubmitting' = FALSE
        /\ step2Calls' = [step2Calls EXCEPT ![i] = NoCall]
        /\ authLast' = Did("submitTimer", step2Calls[i].email, 0)
        /\ UNCHANGED <<authNow, authForm, isBlocked, loading, authUser, authStorage,
                       intervals, loginCalls, outsideAuth>>

\* the attempts stored for e after a failure at time t
recordAttempt(attempts, t) == FilterRecent(Append(attempts, t), t - attemptWindowMs)

\* the number of stored attempts from which a failure blocks the email
shouldBlock(attempts) == Len(attempts) >= MAX_ATTEMPTS

\* after a failed login: the attempt is recorded and, from MAX_ATTEMPTS
\* attempts in the last hour on, the block is stored and isBlocked set; no
\* interval is started here
AfterLoginFailure ==
    \E i \in 1..MaxStep2Calls :
        LET e == step2Calls[i].email
            attempts == recordAttempt(loginAttempts[e], authNow)
        IN
        /\ step2Calls[i].pc = "logFailed"
        /\ loginAttempts' = [loginAttempts EXCEPT ![e] = attempts]
        /\ IF shouldBlock(attempts)
           THEN /\ loginBlock' = [loginBlock EXCEPT ![e] = authNow + BLOCK_DURATION]
                /\ isBlocked' = TRUE
                /\ step2Calls' = [step2Calls EXCEPT ![i].pc = "logLocked"]
                /\ UNCHANGED isSubmitting
           ELSE /\ isSubmitting' = FALSE
                /\ step2Calls' = [step2Calls EXCEPT ![i] = NoCall]
                /\ UNCHANGED <<loginBlock, isBlocked>>
        /\ authLast' = Did("recordFailure", e, Len(attempts))
        /\ UNCHANGED <<authNow, authForm, loading, authUser, intervals, loginCalls,
                       outsideAuth>>

\* the await of logSecurityEvent (login_blocked or account_locked) ends and
\* handleStep2 returns after setLoginError
AfterLog ==
    \E i \in 1..MaxStep2Calls :
        /\ step2Calls[i].pc \in {"logBlocked", "logLocked"}
        /\ step2Calls' = [step2Calls EXCEPT ![i] = NoCall]
        /\ authLast' = Did("logged", step2Calls[i].email, 0)
        /\ UNCHANGED <<authNow, authForm, isBlocked, isSubmitting, loading, authUser,
                       authStorage, intervals, loginCalls, outsideAuth>>

\* a countdown interval fires after blockedUntil: remaining <= 0.  (A firing
\* before blockedUntil only updates the displayed blockTimeRemaining.)
IntervalExpires ==
    \E iv \in intervals :
        /\ authNow >= iv.blockedUntil
        /\ isBlocked' = FALSE
        /\ loginBlock' = [loginBlock EXCEPT ![iv.key] = 0]
        /\ intervals' = intervals \ {iv}
        /\ authLast' = Did("intervalExpires", iv.key, 0)
        /\ UNCHANGED <<authNow, authForm, isSubmitting, loading, authUser, loginAttempts,
                       step2Calls, loginCalls, outsideAuth>>

\* the page is reloaded: the React state is fresh, localStorage stays
Reload ==
    /\ ~authUser
    /\ email' = ""
    /\ step' = 1
    /\ password' = ""
    /\ passwordError' = FALSE
    /\ isBlocked' = FALSE
    /\ isSubmitting' = FALSE
    /\ loading' = FALSE
    /\ intervals' = {}
    /\ step2Calls' = [i \in 1..MaxStep2Calls |-> NoCall]
    /\ authLast' = Did("reload", "", 0)
    /\ UNCHANGED <<authNow, authUser, authStorage, loginCalls, outsideAuth>>

\* Date.now() advances
AuthTick ==
    /\ authNow < MaxAuthSteps * AuthStepMs
    /\ authNow' = authNow + AuthStepMs
    /\ authLast' = Did("tick", "", 0)
    /\ UNCHANGED <<authForm, isBlocked, isSubmitting, loading, authUser, authStorage,
                   intervals, step2Calls, loginCalls, outsideAuth>>

\* localStorage as earlier sessions of the tab can have left it at time 0:
\* empty, three failed attempts, or five failed attempts and the block
StoredBefore ==
    { [attempts |-> << >>, blockedUntil |-> 0],
      [attempts |-> <<0, 0, 0>>, blockedUntil |-> 0],
      [attempts |-> <<0, 0, 0, 0, 0>>, blockedUntil |-> BLOCK_DURATION] }

AuthInit ==
    /\ SlotStart /\ RateStart /\ PostStart /\ MiddlewareStart /\ HeartbeatStart /\ AdminStart /\ LogoutStart /\ OtpStart /\ SlotUploadStart
    /\ PageMounted
    /\ authNow = 0
    /\ authUser = FALSE
    /\ \E st \in StoredBefore :
          /\ loginAttempts = [e \in Emails |-> IF e = "a@x.io" THEN st.attempts ELSE << >>]
          /\ loginBlock = [e \in Emails |-> IF e = "a@x.io" THEN st.blockedUntil ELSE 0]
    /\ loginCalls = 0
    /\ authLast = NoStep

AuthNext ==
    \/ TypeEmail
    \/ TypePassword
    \/ handleStep1
    \/ handleBack
    \/ handleStep2
    \/ LoginSettles
    \/ AfterLoginSuccess
    \/ SubmitTimer
    \/ AfterLoginFailure
    \/ AfterLog
    \/ IntervalExpires
    \/ Reload
    \/ AuthTick

SpecAuthPage == AuthInit /\ [][AuthNext]_vars

\* timers fire, awaited calls settle and time passes; what the user does is
\* not forced
AuthFairness ==
    /\ WF_vars(AuthTick)
    /\ WF_vars(IntervalExpires)
    /\ WF_vars(LoginSettles)
    /\ WF_vars(AfterLoginSuccess)
    /\ WF_vars(AfterLoginFailure)
    /\ WF_vars(AfterLog)
    /\ WF_vars(SubmitTimer)

SpecAuthPageFair == AuthInit /\ [][AuthNext]_vars /\ AuthFairness

\* the failed login that brings the stored attempts of the last hour to
\* MAX_ATTEMPTS stores the block for 15 minutes and sets isBlocked
LockoutAtMaxAttempts ==
    (authLast.op = "recordFailure" /\ authLast.count >= MAX_ATTEMPTS) =>
        /\ loginBlock[authLast.email] = authNow + BLOCK_DURATION
        /\ isBlocked
\* handleStep2 does not call login for the email shown while isBlocked holds
NoLoginCallWhileBlocked ==
    authLast.op = "callLogin" => ~authLast.blockedBefore
\* no failed attempt is recorded for the email shown while isBlocked holds
NoAttemptRecordedWhileBlocked ==
    authLast.op = "recordFailure" => ~authLast.blockedBefore

\* C7: the failed login that brings the attempts recorded for the email in the
\* last hour to MAX_ATTEMPTS stores a block until now + 15 minutes and sets
\* isBlocked; while isBlocked holds, handleStep2 never calls login and records
\* no further failed attempt.
C7_LoginLockout ==
    /\ LockoutAtMaxAttempts
    /\ NoLoginCallWhileBlocked
    /\ NoAttemptRecordedWhileBlocked

\* C8: a login block is temporary: once the blockedUntil of the email shown
\* has passed, isBlocked eventually becomes false (so that handleStep2 can
\* call login again), also when the block was set by a failed attempt of the
\* current page session.
C8_BlockIsTemporary ==
    \A e \in Emails :
        (isBlocked /\ email = e /\ loginBlock[e] # 0 /\ authNow >= loginBlock[e])
            ~> ~isBlocked

(***************************************************************************)
(* Session heartbeat: auto-logout after inactivity                         *)
(***************************************************************************)
heartbeatInterval == 30000
maxInactivity == 900000
sessionClosedWindow == 5000

HbStepMs == 15000     \* the clock advances by 15 seconds
MaxHbSteps == 66      \* clock values 0 .. MaxHbSteps * HbStepMs

\* the interval of the effect is set
HeartbeatRunning == heartbeatIntervalRef # 0

\* the effect body for the given auth state: the interval it leaves, after
\* the cleanup of the previous run
effectInterval(u, l) == IF u /\ ~l THEN hbNow + heartbeatInterval ELSE 0

\* useAuth reports a new auth state: the effect is cleaned up and run again
AuthStateChanged ==
    \E u \in BOOLEAN :
        /\ hbLogout = "none"
        /\ hbLoading \/ u # hbUser
        /\ hbUser' = u
        /\ hbLoading' = FALSE
        /\ heartbeatIntervalRef' = effectInterval(u, FALSE)
        /\ activitySinceStart' = FALSE
        /\ hbLast' = "other"
        /\ UNCHANGED <<hbNow, lastActivityRef, documentHidden, sessionClosed, hbLogout,
                       outsideHeartbeat>>

\* the component renders again: finalConfig is a new object, so the effect is
\* cleaned up and run again, and the interval starts anew
Rerender ==
    /\ HeartbeatRunning
    /\ heartbeatIntervalRef' = effectInterval(hbUser, hbLoading)
    /\ hbLast' = "other"
    /\ UNCHANGED <<hbNow, hbUser, hbLoading, lastActivityRef, documentHidden, sessionClosed,
                   hbLogout, activitySinceStart, outsideHeartbeat>>

\* updateActivity, on one of the activity events
updateActivity ==
    /\ HeartbeatRunning /\ ~documentHidden
    /\ lastActivityRef' = hbNow
    /\ activitySinceStart' = TRUE
    /\ hbLast' = "other"
    /\ UNCHANGED <<hbNow, hbUser, hbLoading, heartbeatIntervalRef, documentHidden,
                   sessionClosed, hbLogout, outsideHeartbeat>>

\* handleVisibilityChange: the tab is hidden, or shown again
handleVisibilityChange ==
    /\ documentHidden' = ~documentHidden
    /\ IF ~HeartbeatRunning
       THEN /\ hbLast' = "other"
            /\ UNCHANGED <<lastActivityRef, hbLogout, activitySinceStart>>
       ELSE IF documentHidden'
       THEN /\ lastActivityRef' = hbNow
            /\ activitySinceStart' = TRUE
            /\ hbLast' = "other"
            /\ UNCHANGED hbLogout
       ELSE IF sessionClosed # -1 /\ hbNow - sessionClosed < sessionClosedWindow
       THEN /\ hbLogout' = "pending"
            /\ hbLast' = "closedLogout"
            /\ UNCHANGED <<lastActivityRef, activitySinceStart>>
       ELSE /\ lastActivityRef' = hbNow
            /\ activitySinceStart' = TRUE
            /\ hbLast' = "other"
            /\ UNCHANGED hbLogout
    /\ UNCHANGED <<hbNow, hbUser, hbLoading, heartbeatIntervalRef, sessionClosed,
                   outsideHeartbeat>>

\* handleBeforeUnload in another tab of the signed-in user
handleBeforeUnload ==
    /\ hbUser
    /\ sessionClosed # hbNow
    /\ sessionClosed' = hbNow
    /\ hbLast' = "other"
    /\ UNCHANGED <<hbNow, hbUser, hbLoading, lastActivityRef, heartbeatIntervalRef,
                   documentHidden, hbLogout, activitySinceStart, outsideHeartbeat>>

\* the inactivity test of a heartbeat tick
inactive(timeSinceLastActivity) == timeSinceLastActivity > maxInactivity

\* the interval fires
HeartbeatTick ==
    /\ HeartbeatRunning
    /\ hbNow = heartbeatIntervalRef
    /\ heartbeatIntervalRef' = hbNow + heartbeatInterval
    /\ IF inactive(hbNow - lastActivityRef)
       THEN hbLogout' = "pending" /\ hbLast' = "tickLogout"
       ELSE hbLast' = "tick" /\ UNCHANGED hbLogout
    /\ UNCHANGED <<hbNow, hbUser, hbLoading, lastActivityRef, documentHidden, sessionClosed,
                   activitySinceStart, outsideHeartbeat>>

\* forceLogout completes: the user is signed out, localStorage is cleared and
\* the page is loaded again at /auth
ForceLogoutDone ==
    /\ hbLogout = "pending"
    /\ hbLogout' = "none"
    /\ hbUser' = FALSE
    /\ hbLoading' = TRUE
    /\ sessionClosed' = -1
    /\ heartbeatIntervalRef' = 0
    /\ lastActivityRef' = hbNow
    /\ activitySinceStart' = FALSE
    /\ hbLast' = "other"
    /\ UNCHANGED <<hbNow, documentHidden, outsideHeartbeat>>

\* Date.now() advances, not past a firing of the interval that is due
HbAdvance ==
    /\ hbNow < MaxHbSteps * HbStepMs
    /\ HeartbeatRunning => hbNow < heartbeatIntervalRef
    /\ hbNow' = hbNow + HbStepMs
    /\ hbLast' = "other"
    /\ UNCHANGED <<hbUser, hbLoading, lastActivityRef, heartbeatIntervalRef, documentHidden,
                   sessionClosed, hbLogout, activitySinceStart, outsideHeartbeat>>

HeartbeatInit ==
    SlotStart /\ RateStart /\ PostStart /\ MiddlewareStart /\ AuthStart /\ HeartbeatStart /\ AdminStart /\ LogoutStart /\ OtpStart /\ SlotUploadStart

HeartbeatNext ==
    \/ AuthStateChanged
    \/ Rerender
    \/ updateActivity
    \/ handleVisibilityChange
    \/ handleBeforeUnload
    \/ HeartbeatTick
    \/ ForceLogoutDone
    \/ HbAdvance

SpecHeartbeat == HeartbeatInit /\ [][HeartbeatNext]_vars

\* the heartbeat of a signed-in user is running, lastActivityRef has been
\* written since it started, and no forceLogout call is under way
AwaitingInactivity ==
    HeartbeatRunning /\ hbUser /\ activitySinceStart /\ hbLogout = "none"

\* forceLogout is called no later than maxInactivity + heartbeatInterval after
\* the last activity
LogoutDeadline ==
    AwaitingInactivity => hbNow <= lastActivityRef + maxInactivity + heartbeatInterval
\* a tick calls forceLogout only after more than maxInactivity without activity
NoEarlyLogout ==
    hbLast = "tickLogout" => hbNow - lastActivityRef > maxInactivity

\* C9: while a user is authenticated and the heartbeat is running, forceLogout
\* is called no later than maxInactivity + heartbeatInterval after the last
\* activity, and a heartbeat tick never calls forceLogout when the time since
\* the last activity is at most maxInactivity.
C9_InactivityLogout == LogoutDeadline /\ NoEarlyLogout

(***************************************************************************)
(* Firebase Admin SDK: fail-fast lockdown                                  *)
(***************************************************************************)
\* what the firebase-admin package does in tryInitializeAdmin: an app exists
\* already, initializeApp succeeds, or cert/initializeApp throws
SdkOutcomes == {"existing", "ok", "throws"}

AdminState ==
    [adminApp |-> adminApp, initializationError |-> initializationError,
     initialized |-> initialized, securityLockdown |-> securityLockdown]

\* the try block of tryInitializeAdmin throws
initThrows(env, sdk) ==
    /\ sdk # "existing"
    /\ \/ sdk = "throws"
       \/ IF env.nodeEnv = "production"
          THEN ~env.privateKey \/ ~env.clientEmail
          ELSE env.serviceAccountKey # "json"
       \/ ~env.projectId

\* tryInitializeAdmin(): the module state after the call, and whether it threw
tryInitializeAdmin(st, env, sdk) ==
    IF st.initialized THEN [state |-> st, threw |-> FALSE]
    ELSE IF initThrows(env, sdk)
    THEN IF env.nodeEnv = "production"
         THEN [state |-> [st EXCEPT !.initializationError = "error", !.adminApp = None,
                                    !.securityLockdown = TRUE],
               threw |-> TRUE]
         ELSE [state |-> [st EXCEPT !.initializationError = "error", !.adminApp = None,
                                    !.initialized = TRUE],
               threw |-> FALSE]
    ELSE [state |-> [st EXCEPT !.adminApp = "app", !.initialized = TRUE], threw |-> FALSE]

missingVars(env) == ~env.privateKey \/ ~env.clientEmail \/ ~env.projectId

isAdminAvailable_noLockdownCheck(st, env, sdk) ==
    IF env.nodeEnv # "production" /\ env.serviceAccountKey = None
    THEN [state |-> st, result |-> "false"]
    ELSE IF env.nodeEnv = "production" /\ missingVars(env)
    THEN [state |-> [st EXCEPT !.securityLockdown = TRUE], result |-> "throws"]
    ELSE LET init == tryInitializeAdmin(st, env, sdk) IN
         IF init.threw THEN [state |-> init.state, result |-> "throws"]
         ELSE [state |-> init.state,
               result |-> IF init.state.adminApp # None
                             /\ init.state.initializationError = None
                             /\ ~init.state.securityLockdown
                          THEN "true" ELSE "false"]

\* isAdminAvailable(): the module state after the call, and "true", "false"
\* or "throws"
isAdminAvailable(st, env, sdk) ==
    IF st.securityLockdown THEN [state |-> st, result |-> "false"]
    ELSE IF env.nodeEnv # "production" /\ env.serviceAccountKey = None
    THEN [state |-> st, result |-> "false"]
    ELSE IF env.nodeEnv = "production" /\ missingVars(env)
    THEN [state |-> [st EXCEPT !.securityLockdown = TRUE], result |-> "throws"]
    ELSE LET init == tryInitializeAdmin(st, env, sdk) IN
         IF init.threw THEN [state |-> init.state, result |-> "throws"]
         ELSE [state |-> init.state,
               result |-> IF init.state.adminApp # None
                             /\ init.state.initializationError = None
                             /\ ~init.state.securityLockdown
                          THEN "true" ELSE "false"]

\* getAdminAuth, getAdminStorage, getAdminFirestore, getAdminApp: the service
\* is returned, or the call throws
getAdminService(st, env, sdk) ==
    LET avail == isAdminAvailable(st, env, sdk) IN
    [state |-> avail.state,
     result |-> IF avail.result = "true" THEN "service" ELSE "throws"]

\* the module state and the record of the call after a call with outcome out
AdminCalled(call, out) ==
    /\ adminApp' = out.state.adminApp
    /\ initializationError' = out.state.initializationError
    /\ initialized' = out.state.initialized
    /\ securityLockdown' = out.state.securityLockdown
    /\ lockdownSeen' = (lockdownSeen \/ out.state.securityLockdown)
    /\ adminLast' = [call |-> call, result |-> out.result,
                     lockdownBefore |-> securityLockdown]
    /\ UNCHANGED <<adminEnv, outsideAdmin>>

IsAdminAvailable ==
    \E sdk \in SdkOutcomes :
        AdminCalled("isAdminAvailable", isAdminAvailable(AdminState, adminEnv, sdk))
GetAdminAuth ==
    \E sdk \in SdkOutcomes :
        AdminCalled("getAdminAuth", getAdminService(AdminState, adminEnv, sdk))
GetAdminStorage ==
    \E sdk \in SdkOutcomes :
        AdminCalled("getAdminStorage", getAdminService(AdminState, adminEnv, sdk))
GetAdminFirestore ==
    \E sdk \in SdkOutcomes :
        AdminCalled("getAdminFirestore", getAdminService(AdminState, adminEnv, sdk))
GetAdminApp ==
    \E sdk \in SdkOutcomes :
        AdminCalled("getAdminApp", getAdminService(AdminState, adminEnv, sdk))

\* the environment of the process is changed
AdminEnvChange ==
    \E env \in AdminEnvs :
        /\ env # adminEnv
        /\ adminEnv' = env
        /\ adminLast' = NoAdminCall
        /\ UNCHANGED <<adminApp, initializationError, initialized, securityLockdown,
                       lockdownSeen, outsideAdmin>>

AdminInit ==
    /\ SlotStart /\ RateStart /\ PostStart /\ MiddlewareStart /\ AuthStart /\ HeartbeatStart /\ LogoutStart /\ OtpStart /\ SlotUploadStart
    /\ AdminLoaded
    /\ adminEnv \in AdminEnvs

AdminNext ==
    \/ IsAdminAvailable
    \/ GetAdminAuth
    \/ GetAdminStorage
    \/ GetAdminFirestore
    \/ GetAdminApp
    \/ AdminEnvChange

SpecAdmin == AdminInit /\ [][AdminNext]_vars

AdminGetters == {"getAdminAuth", "getAdminStorage", "getAdminFirestore", "getAdminApp"}

\* C10: securityLockdown, once set, is never cleared; from then on every call
\* of isAdminAvailable returns false and the four getters throw, so that no
\* admin service is returned after a lockdown; and isAdminAvailable returns
\* true (and a getter returns its service) only when adminApp is non-null,
\* initializationError is null and securityLockdown is false.
C10_Lockdown ==
    /\ lockdownSeen => securityLockdown
    /\ (adminLast.lockdownBefore /\ adminLast.call = "isAdminAvailable")
          => adminLast.result = "false"
    /\ (adminLast.lockdownBefore /\ adminLast.call \in AdminGetters)
          => adminLast.result = "throws"
    /\ adminLast.result \in {"true", "service"}
          => (adminApp # None /\ initializationError = None /\ ~securityLockdown)

\* C10 witness: after a lockdown the environment is made complete, and a
\* getter still throws
C10_Witness ==
    /\ adminLast.lockdownBefore
    /\ adminLast.call = "getAdminStorage"
    /\ adminLast.result = "throws"
    /\ adminEnv.nodeEnv = "production" /\ ~missingVars(adminEnv)

(***************************************************************************)
(* forceLogout: the order of the logout steps                              *)
(***************************************************************************)
LocalStorageKeys == {"firebase:authUser", "session_closed", "login_attempts_a@x.io"}
SessionStorageKeys == {"draft"}
Cookies_site ==
    { [name |-> "firebaseToken", httpOnly |-> FALSE, path |-> "/"],
      [name |-> "session", httpOnly |-> TRUE, path |-> "/"],
      [name |-> "prefs", httpOnly |-> FALSE, path |-> "/admin"] }

\* document.cookie.split(";").forEach(c => document.cookie = name + "=;expires=now;path=/"):
\* the cookies scripts can see that have path / are removed
expireCookies(cookies) == { c \in cookies : c.httpOnly \/ c.path # "/" }

\* steps 3 to 7: localStorage.clear(), sessionStorage.clear(), the removals
\* of single keys (nothing is left to remove) and the cookies
clearClientData(st) ==
    [localStorage |-> {}, sessionStorage |-> {}, cookies |-> expireCookies(st.cookies)]

ClientData ==
    [localStorage |-> flLocalStorage, sessionStorage |-> flSessionStorage,
     cookies |-> flCookies]

afterSignOut_ignoreFailure(ok, cfg, st) ==
    [rejected |-> FALSE,
     data |-> IF cfg.hasWindow THEN clearClientData(st) ELSE st,
     steps |-> IF cfg.hasWindow THEN <<"clear", "logout">> ELSE <<"logout">>]

\* forceLogout from the settling of signOut to the await of the logout
\* request: a failed signOut goes to the outer catch, which throws again
afterSignOut(ok, cfg, st) ==
    IF ~ok THEN [rejected |-> TRUE, data |-> st, steps |-> << >>]
    ELSE [rejected |-> FALSE,
          data |-> IF cfg.hasWindow THEN clearClientData(st) ELSE st,
          steps |-> IF cfg.hasWindow THEN <<"clear", "logout">> ELSE <<"logout">>]

\* forceLogout(includeServerInvalidation) is called and runs to its first await
forceLogout ==
    /\ flPc = "idle"
    /\ flBefore' = ClientData
    /\ IF flConfig.includeServerInvalidation
       THEN /\ flPc' = "invalidate"
            /\ flLog' = <<"invalidate">>
            /\ UNCHANGED flOutcome
       ELSE /\ flPc' = "signOut"
            /\ flLog' = <<"signOut">>
            /\ flOutcome' = [flOutcome EXCEPT !.invalidate = "skipped"]
    /\ UNCHANGED <<flConfig, flLocalStorage, flSessionStorage, flCookies, flLocation,
                   flResult, outsideLogout>>

\* fetch('/api/auth/invalidate-session') settles; a failure is caught and
\* logged, and signOut is called
InvalidateSettles ==
    \E ok \in BOOLEAN :
        /\ flPc = "invalidate"
        /\ flOutcome' = [flOutcome EXCEPT !.invalidate = IF ok THEN "ok" ELSE "failed"]
        /\ flPc' = "signOut"
        /\ flLog' = Append(flLog, "signOut")
        /\ UNCHANGED <<flConfig, flLocalStorage, flSessionStorage, flCookies, flLocation,
                       flBefore, flResult, outsideLogout>>

\* signOut(auth) settles
SignOutSettles ==
    \E ok \in BOOLEAN :
        LET out == afterSignOut(ok, flConfig, ClientData) IN
        /\ flPc = "signOut"
        /\ flOutcome' = [flOutcome EXCEPT !.signOut = IF ok THEN "ok" ELSE "failed"]
        /\ flLocalStorage' = out.data.localStorage
        /\ flSessionStorage' = out.data.sessionStorage
        /\ flCookies' = out.data.cookies
        /\ flLog' = flLog \o out.steps
        /\ flPc' = IF out.rejected THEN "done" ELSE "logout"
        /\ flResult' = IF out.rejected THEN "rejected" ELSE "pending"
        /\ UNCHANGED <<flConfig, flLocation, flBefore, outsideLogout>>

\* fetch('/api/auth/logout') settles; a failure is caught and logged, and the
\* page is sent to /auth
LogoutSettles ==
    \E ok \in BOOLEAN :
        /\ flPc = "logout"
        /\ flOutcome' = [flOutcome EXCEPT !.logout = IF ok THEN "ok" ELSE "failed"]
        /\ IF flConfig.hasWindow
           THEN flLocation' = "/auth" /\ flLog' = Append(flLog, "redirect")
           ELSE UNCHANGED <<flLocation, flLog>>
        /\ flPc' = "done"
        /\ flResult' = "resolved"
        /\ UNCHANGED <<flConfig, flLocalStorage, flSessionStorage, flCookies, flBefore,
                       outsideLogout>>

LogoutInit ==
    /\ SlotStart /\ RateStart /\ PostStart /\ MiddlewareStart /\ AuthStart /\ HeartbeatStart /\ AdminStart /\ OtpStart /\ SlotUploadStart
    /\ LogoutIdle
    /\ flConfig \in [includeServerInvalidation : BOOLEAN, hasWindow : BOOLEAN]
    /\ flLocalStorage \in SUBSET LocalStorageKeys
    /\ flSessionStorage \in SUBSET SessionStorageKeys
    /\ flCookies \in SUBSET Cookies_site
    /\ flBefore = [localStorage |-> {}, sessionStorage |-> {}, cookies |-> {}]

LogoutNext ==
    \/ forceLogout
    \/ InvalidateSettles
    \/ SignOutSettles
    \/ LogoutSettles

SpecLogout == LogoutInit /\ [][LogoutNext]_vars

\* the position of a step in the log, 0 when it was not taken
StepAt(name) ==
    IF \E i \in 1..Len(flLog) : flLog[i] = name
    THEN CHOOSE i \in 1..Len(flLog) : flLog[i] = name
    ELSE 0
Before(a, b) == (StepAt(a) # 0 /\ StepAt(b) # 0) => StepAt(a) < StepAt(b)
Taken(name) == StepAt(name) # 0

\* C11: forceLogout takes its steps in a fixed order: the session-invalidation
\* request (when enabled) before signOut, signOut before the clearing of
\* localStorage, sessionStorage and cookies, then the server logout request,
\* and last the redirect to /auth; a failure of either server request does not
\* prevent any later step, whereas a failing signOut makes forceLogout reject
\* with the storages not cleared and no redirect.
C11_LogoutOrder ==
    /\ Before("invalidate", "signOut") /\ Before("signOut", "clear")
    /\ Before("clear", "logout") /\ Before("logout", "redirect")
    /\ Taken("signOut") =>
          (Taken("invalidate") <=> flConfig.includeServerInvalidation)
    /\ (Taken("clear") \/ Taken("logout") \/ Taken("redirect")) => flOutcome.signOut = "ok"
    /\ Taken("redirect") => (Taken("clear") /\ Taken("logout"))
    /\ flOutcome.signOut = "ok" =>
          /\ Taken("logout")
          /\ flConfig.hasWindow =>
                /\ Taken("clear")
                /\ flLocalStorage = {} /\ flSessionStorage = {}
                /\ flCookies = expireCookies(flBefore.cookies)
    /\ (flPc = "done" /\ flOutcome.signOut = "ok") =>
          /\ flResult = "resolved"
          /\ flConfig.hasWindow => (Taken("redirect") /\ flLocation = "/auth")
    /\ flOutcome.signOut = "failed" =>
          /\ flPc = "done" /\ flResult = "rejected"
          /\ ClientData = flBefore
          /\ flLocation = "/admin"
          /\ ~Taken("clear") /\ ~Taken("logout") /\ ~Taken("redirect")

\* C11 witness: both server requests fail and the call still clears the
\* storages and redirects
C11_Witness ==
    /\ flPc = "done" /\ flResult = "resolved"
    /\ flOutcome.invalidate = "failed" /\ flOutcome.logout = "failed"
    /\ flBefore.localStorage # {} /\ flLocalStorage = {}
    /\ flLocation = "/auth"
    /\ flLog = <<"invalidate", "signOut", "clear", "logout", "redirect">>

(***************************************************************************)
(* sendOTP: the 30-second rate limit                                       *)
(***************************************************************************)
OTP_RATE_LIMIT_MS == 30000

\* window.lastOtpSent && (now - window.lastOtpSent) < OTP_RATE_LIMIT_MS
otpRateLimited(last, t) == last # 0 /\ (t - last) < OTP_RATE_LIMIT_MS

OtpIdleSlots == { i \in 1..MaxOtpCalls : otpCalls[i].pc = "idle" }
OtpFreeSlot == CHOOSE i \in OtpIdleSlots : \A j \in OtpIdleSlots : i <= j

\* sendOTP(phoneNumber) up to its return or to the call of
\* signInWithPhoneNumber; the RecaptchaVerifier constructor can throw
sendOTP ==
    \E verifierOk \in BOOLEAN :
        /\ IF otpRateLimited(lastOtpSent, otpNow)
           THEN /\ otpLast' = [kind |-> "rateLimited", sinceLastSent |-> otpNow - lastOtpSent]
                /\ UNCHANGED <<recaptchaVerifier, otpCalls, otpInvocations>>
           ELSE IF ~recaptchaVerifier /\ ~verifierOk
           THEN /\ otpLast' = [kind |-> "verifierFailed", sinceLastSent |-> 0]
                /\ UNCHANGED <<recaptchaVerifier, otpCalls, otpInvocations>>
           ELSE /\ OtpIdleSlots # {}
                /\ Len(otpInvocations) < MaxOtpInvocations
                /\ recaptchaVerifier' = TRUE
                /\ otpInvocations' = Append(otpInvocations, otpNow)
                /\ otpCalls' = [otpCalls EXCEPT ![OtpFreeSlot] =
                                   [pc |-> "signIn", invokedAt |-> otpNow]]
                /\ otpLast' = [kind |-> "invoked", sinceLastSent |-> 0]
        /\ UNCHANGED <<otpNow, lastOtpSent, otpSends, outsideOtp>>

\* signInWithPhoneNumber settles: on success lastOtpSent is set to the time
\* of the settling, on failure nothing is recorded
SignInSettles ==
    \E i \in 1..MaxOtpCalls, ok \in BOOLEAN :
        /\ otpCalls[i].pc = "signIn"
        /\ otpCalls' = [otpCalls EXCEPT ![i] = NoOtpCall]
        /\ IF ok
           THEN /\ lastOtpSent' = otpNow
                /\ otpSends' = Append(otpSends, otpCalls[i].invokedAt)
           ELSE UNCHANGED <<lastOtpSent, otpSends>>
        /\ otpLast' = NoOtpReturn
        /\ UNCHANGED <<otpNow, recaptchaVerifier, otpInvocations, outsideOtp>>

\* Date.now() advances
OtpAdvance ==
    /\ otpNow < (MaxOtpSteps + 1) * OtpStepMs
    /\ otpNow' = otpNow + OtpStepMs
    /\ otpLast' = NoOtpReturn
    /\ UNCHANGED <<lastOtpSent, recaptchaVerifier, otpCalls, otpInvocations, otpSends,
                   outsideOtp>>

OtpInit ==
    SlotStart /\ RateStart /\ PostStart /\ MiddlewareStart /\ AuthStart /\ HeartbeatStart /\ AdminStart /\ LogoutStart /\ OtpStart /\ SlotUploadStart

OtpNext ==
    \/ sendOTP
    \/ SignInSettles
    \/ OtpAdvance

SpecOtp == OtpInit /\ [][OtpNext]_vars

\* a sendOTP call that finds a lastOtpSent less than 30 s old returns without
\* contacting Firebase
RateLimitedReturn ==
    otpLast.kind = "invoked" => ~otpRateLimited(lastOtpSent, otpNow)

\* C12: OTP sending is limited to one OTP every 30 seconds for any
\* interleaving of sendOTP calls: two invocations of signInWithPhoneNumber
\* that both sent an OTP are at least 30 seconds apart.
C12_OneOtpPer30s ==
    \A i, j \in 1..Len(otpSends) :
        i # j => (otpSends[i] - otpSends[j] >= OTP_RATE_LIMIT_MS
                  \/ otpSends[j] - otpSends[i] >= OTP_RATE_LIMIT_MS)

(***************************************************************************)
(* uploadToSlots: one outcome per file                                     *)
(***************************************************************************)
SlotCalls ==
    [files : UNION { [1..n -> SlotFiles] : n \in 0..MaxSlotFiles },
     config : SlotConfigs,
     documentId : EntityIds,
     slug : EntityIds,
     fileType : EntityIds,
     subPath : EntityIds \cup {None},
     startIndex : {0, 1}]

\* generateCustomFilename: throws when slug or fileType is not sanitizable
generateCustomFilenameOk(slug, fileType) ==
    sanitizePathComponentOk(slug) /\ sanitizePathComponentOk(fileType)

generateCustomFilename(slug, fileType, file, index) ==
    [slug |-> slug, fileType |-> fileType, base |-> file.base, number |-> index + 1]

\* generateSlotPath: throws when documentId or a given subPath is not
\* sanitizable
generateSlotPathOk(documentId, subPath) ==
    /\ sanitizePathComponentOk(documentId)
    /\ subPath # None => sanitizePathComponentOk(subPath)

generateSlotPath(config, documentId, filename, subPath) ==
    [basePath |-> config.basePath, documentId |-> documentId, subPath |-> subPath,
     filename |-> filename]

\* what the callback of a file does once validateFile has settled: it pushes
\* an error, or throws out of the callback while building the file name and
\* the slot path, or starts the upload
afterValidation(file, a) ==
    IF ~file.valid THEN "error"
    ELSE IF ~(generateCustomFilenameOk(a.slug, a.fileType)
              /\ generateSlotPathOk(a.documentId, a.subPath)) THEN "throw"
    ELSE "upload"

\* the UploadSlot of files[index + 1]
uploadSlot(a, index) ==
    LET filename == generateCustomFilename(a.slug, a.fileType, a.files[index + 1], index)
    IN  [slotIndex |-> a.startIndex + index + 1,
         path |-> generateSlotPath(a.config, a.documentId, filename, a.subPath),
         filename |-> filename]

RECURSIVE collectResults(_, _, _)
\* results.forEach(result => { if (result) uploadedSlots.push(result) })
collectResults(a, pc, i) ==
    IF i > Len(a.files) THEN << >>
    ELSE (IF pc[i] = "uploaded" THEN <<uploadSlot(a, i - 1)>> ELSE << >>)
         \o collectResults(a, pc, i + 1)

\* uploadToSlots(files, config, documentId, slug, fileType, subPath,
\* startIndex) up to its first await: the length check, then files.map starts
\* the callback of every file, which returns null for a null entry and awaits
\* validateFile for the others
uploadToSlots ==
    \E a \in SlotCalls :
        /\ utResult = "idle"
        /\ utArgs' = a
        /\ IF Len(a.files) > a.config.maxSlots
           THEN /\ utResult' = "rejected"
                /\ UNCHANGED utPc
           ELSE /\ utResult' = "pending"
                /\ utPc' = [i \in 1..MaxSlotFiles |->
                               IF i > Len(a.files) THEN "none"
                               ELSE IF a.files[i].isNull THEN "skipped"
                               ELSE "validating"]
        /\ UNCHANGED <<uploadedSlots, errors, utUploads, outsideSlotUpload>>

\* validateFile settles for files[i]; a throw out of the callback rejects
\* Promise.all and with it uploadToSlots
ValidationSettles ==
    \E i \in 1..MaxSlotFiles :
        /\ utPc[i] = "validating"
        /\ LET todo == afterValidation(utArgs.files[i], utArgs)
           IN  /\ utPc' = [utPc EXCEPT ![i] =
                              CASE todo = "error" -> "failed"
                                [] todo = "throw" -> "threw"
                                [] OTHER -> "uploading"]
               /\ errors' = IF todo = "error"
                            THEN Append(errors, [slot |-> utArgs.startIndex + i,
                                                 kind |-> "validation"])
                            ELSE errors
               /\ utUploads' = IF todo = "upload" THEN utUploads \cup {i} ELSE utUploads
               /\ utResult' = IF todo = "throw" /\ utResult = "pending"
                              THEN "rejected" ELSE utResult
        /\ UNCHANGED <<utArgs, uploadedSlots, outsideSlotUpload>>

\* uploadSingleFileWithTimeout settles for files[i]
UploadSettles ==
    \E i \in 1..MaxSlotFiles, ok \in BOOLEAN :
        /\ utPc[i] = "uploading"
        /\ utPc' = [utPc EXCEPT ![i] = IF ok THEN "uploaded" ELSE "failed"]
        /\ errors' = IF ok THEN errors
                     ELSE Append(errors, [slot |-> utArgs.startIndex + i, kind |-> "upload"])
        /\ UNCHANGED <<utArgs, uploadedSlots, utUploads, utResult, outsideSlotUpload>>

\* Promise.all resolves once every callback has returned; the results are
\* collected and uploadToSlots resolves
PromiseAllResolves ==
    /\ utResult = "pending"
    /\ \A i \in 1..Len(utArgs.files) : utPc[i] \in {"skipped", "failed", "uploaded"}
    /\ uploadedSlots' = collectResults(utArgs, utPc, 1)
    /\ utResult' = "resolved"
    /\ UNCHANGED <<utArgs, utPc, errors, utUploads, outsideSlotUpload>>

SlotUploadInit ==
    SlotStart /\ RateStart /\ PostStart /\ MiddlewareStart /\ AuthStart /\ HeartbeatStart /\ AdminStart /\ LogoutStart /\ OtpStart /\ SlotUploadStart

SlotUploadNext ==
    \/ uploadToSlots
    \/ ValidationSettles
    \/ UploadSettles
    \/ PromiseAllResolves

SpecSlotUpload == SlotUploadInit /\ [][SlotUploadNext]_vars

NonNullFiles == { i \in 1..Len(utArgs.files) : ~utArgs.files[i].isNull }
SlotsOfUploaded == { uploadedSlots[k].slotIndex : k \in 1..Len(uploadedSlots) }
SlotsOfErrors == { errors[k].slot : k \in 1..Len(errors) }

\* every non-null file has exactly one outcome
OneOutcomeEach ==
    /\ Len(uploadedSlots) + Len(errors) = Cardinality(NonNullFiles)
    /\ SlotsOfUploaded \cap SlotsOfErrors = {}
    /\ SlotsOfUploaded \cup SlotsOfErrors = { utArgs.startIndex + i : i \in NonNullFiles }

\* a call with more files than slots rejects and starts nothing
TooManyFilesRejects ==
    (utResult # "idle" /\ Len(utArgs.files) > utArgs.config.maxSlots) =>
        /\ utResult = "rejected"
        /\ utUploads = {}
        /\ \A i \in 1..MaxSlotFiles : utPc[i] = "none"

\* with sanitizable slug, fileType, documentId and subPath the call never
\* rejects and resolves with one outcome per non-null file
OutcomesWhenPathsValid ==
    (/\ utResult # "idle"
     /\ Len(utArgs.files) <= utArgs.config.maxSlots
     /\ generateCustomFilenameOk(utArgs.slug, utArgs.fileType)
     /\ generateSlotPathOk(utArgs.documentId, utArgs.subPath)) =>
        /\ utResult # "rejected"
        /\ utResult = "resolved" => OneOutcomeEach

\* C13: uploadToSlots rejects before starting any upload when files.length >
\* config.maxSlots; otherwise it skips null entries and every non-null file
\* yields exactly one outcome, an entry in uploadedSlots or a message in
\* errors, so that uploadedSlots.length + errors.length is the number of
\* non-null files, and no file's failure makes uploadToSlots reject.
C13_OneOutcomePerFile ==
    /\ TooManyFilesRejects
    /\ (utResult # "idle" /\ Len(utArgs.files) <= utArgs.config.maxSlots) =>
          /\ utResult # "rejected"
          /\ \A i \in 1..Len(utArgs.files) :
                utArgs.files[i].isNull <=> utPc[i] = "skipped"
          /\ utResult = "resolved" => OneOutcomeEach


====
